---- MODULE Spec2Model ----
(***************************************************************************)
(* Device-token authentication core of taskhub-be: JwtUtils (token codec), *)
(* AuthService (issuance and the in-memory device -> token map),           *)
(* JwtAuthGuard (request gate) and the jwt decorators (identity accessors).*)
(*                                                                         *)
(* A JavaScript string is a sequence of symbols.  A symbol is a character  *)
(* [ch |-> c] or one base64url segment of a signed token [seg |-> ...]; a  *)
(* segment stands for a non-empty run of characters that holds no dot, no  *)
(* whitespace and no line terminator.                                      *)
(***************************************************************************)
EXTENDS Integers, Sequences, FiniteSets, TLC

\* ------------------------------------------------------------------------
\* Bounds of the model
MaxTime   == 2      \* the clock (whole seconds) runs over 1..MaxTime
MaxIssued == 2      \* distinct tokens handed to clients in one behaviour
MaxFreeLen == 3     \* symbols after the prefix of a drawn header
MaxSegments == 4    \* dot-separated segments of a drawn token
MaxCalls == 2       \* service calls one client makes in one behaviour

\* ------------------------------------------------------------------------
\* JavaScript values

Ch(c) == [ch |-> c]
Str(cs) == [i \in 1..Len(cs) |-> Ch(cs[i])]

undefined == <<[undefined |-> TRUE]>>
null == <<[null |-> TRUE]>>
noPayload == [undefined |-> TRUE]

\* !s for s : string | undefined | null
Falsy(s) == s = undefined \/ s = null \/ s = <<>>

\* a || b
OrElse(a, b) == IF Falsy(a) THEN b ELSE a

LineTerminators == {Ch("\n"), Ch("\r")}
WhiteSpace == {Ch(" "), Ch("\t")} \cup LineTerminators

RECURSIVE trimStart(_)
trimStart(s) ==
  IF s # <<>> /\ Head(s) \in WhiteSpace THEN trimStart(Tail(s)) ELSE s

RECURSIVE trimEnd(_)
trimEnd(s) ==
  IF s # <<>> /\ s[Len(s)] \in WhiteSpace
  THEN trimEnd(SubSeq(s, 1, Len(s) - 1)) ELSE s

\* String.prototype.trim
trim(s) == trimEnd(trimStart(s))

RECURSIVE splitFrom(_, _, _)
splitFrom(s, sep, cur) ==
  IF s = <<>> THEN <<cur>>
  ELSE IF Head(s) = sep THEN <<cur>> \o splitFrom(Tail(s), sep, <<>>)
  ELSE splitFrom(Tail(s), sep, Append(cur, Head(s)))

\* String.prototype.split(sep) for a one-character separator
split(s, sep) == splitFrom(s, sep, <<>>)

toLowerCase(sym) ==
  CASE sym = Ch("A") -> Ch("a")
    [] sym = Ch("B") -> Ch("b")
    [] sym = Ch("C") -> Ch("c")
    [] sym = Ch("D") -> Ch("d")
    [] sym = Ch("E") -> Ch("e")
    [] sym = Ch("F") -> Ch("f")
    [] sym = Ch("G") -> Ch("g")
    [] sym = Ch("H") -> Ch("h")
    [] sym = Ch("I") -> Ch("i")
    [] sym = Ch("J") -> Ch("j")
    [] sym = Ch("K") -> Ch("k")
    [] sym = Ch("L") -> Ch("l")
    [] sym = Ch("M") -> Ch("m")
    [] sym = Ch("N") -> Ch("n")
    [] sym = Ch("O") -> Ch("o")
    [] sym = Ch("P") -> Ch("p")
    [] sym = Ch("Q") -> Ch("q")
    [] sym = Ch("R") -> Ch("r")
    [] sym = Ch("S") -> Ch("s")
    [] sym = Ch("T") -> Ch("t")
    [] sym = Ch("U") -> Ch("u")
    [] sym = Ch("V") -> Ch("v")
    [] sym = Ch("W") -> Ch("w")
    [] sym = Ch("X") -> Ch("x")
    [] sym = Ch("Y") -> Ch("y")
    [] sym = Ch("Z") -> Ch("z")
    [] OTHER -> sym

lower(s) == [i \in 1..Len(s) |-> toLowerCase(s[i])]

\* ------------------------------------------------------------------------
\* The duration parser behind jwt.sign's expiresIn (package ms):
\*   /^(-?(?:\d+)?\.?\d+) *(milliseconds?|msecs?|ms|seconds?|secs?|s|minutes?|
\*      mins?|m|hours?|hrs?|h|days?|d|weeks?|w|years?|yrs?|y)?$/i

msMillisecondsNames ==
  {Str(<<"m", "i", "l", "l", "i", "s", "e", "c", "o", "n", "d", "s">>),
   Str(<<"m", "i", "l", "l", "i", "s", "e", "c", "o", "n", "d">>),
   Str(<<"m", "s", "e", "c", "s">>),
   Str(<<"m", "s", "e", "c">>),
   Str(<<"m", "s">>)}

msSecondsNames ==
  {Str(<<"s", "e", "c", "o", "n", "d", "s">>),
   Str(<<"s", "e", "c", "o", "n", "d">>),
   Str(<<"s", "e", "c", "s">>),
   Str(<<"s", "e", "c">>),
   Str(<<"s">>)}

msMinutesNames ==
  {Str(<<"m", "i", "n", "u", "t", "e", "s">>),
   Str(<<"m", "i", "n", "u", "t", "e">>),
   Str(<<"m", "i", "n", "s">>),
   Str(<<"m", "i", "n">>),
   Str(<<"m">>)}

msHoursNames ==
  {Str(<<"h", "o", "u", "r", "s">>),
   Str(<<"h", "o", "u", "r">>),
   Str(<<"h", "r", "s">>),
   Str(<<"h", "r">>),
   Str(<<"h">>)}

msDaysNames ==
  {Str(<<"d", "a", "y", "s">>),
   Str(<<"d", "a", "y">>),
   Str(<<"d">>)}

msWeeksNames ==
  {Str(<<"w", "e", "e", "k", "s">>),
   Str(<<"w", "e", "e", "k">>),
   Str(<<"w">>)}

msYearsNames ==
  {Str(<<"y", "e", "a", "r", "s">>),
   Str(<<"y", "e", "a", "r">>),
   Str(<<"y", "r", "s">>),
   Str(<<"y", "r">>),
   Str(<<"y">>)}

\* seconds per unit, as the fraction <<numerator, denominator>>
msUnitSeconds(u) ==
  CASE u \in msMillisecondsNames -> <<1, 1000>>
    [] u \in msSecondsNames -> <<1, 1>>
    [] u \in msMinutesNames -> <<60, 1>>
    [] u \in msHoursNames -> <<3600, 1>>
    [] u \in msDaysNames -> <<86400, 1>>
    [] u \in msWeeksNames -> <<604800, 1>>
    [] u \in msYearsNames -> <<31557600, 1>>
    [] OTHER -> <<0, 0>>

Digits == {Ch("0"), Ch("1"), Ch("2"), Ch("3"), Ch("4"),
           Ch("5"), Ch("6"), Ch("7"), Ch("8"), Ch("9")}

digitValue(sym) ==
  CASE sym = Ch("0") -> 0 [] sym = Ch("1") -> 1 [] sym = Ch("2") -> 2
    [] sym = Ch("3") -> 3 [] sym = Ch("4") -> 4 [] sym = Ch("5") -> 5
    [] sym = Ch("6") -> 6 [] sym = Ch("7") -> 7 [] sym = Ch("8") -> 8
    [] sym = Ch("9") -> 9

RECURSIVE digitsValue(_)
digitsValue(s) ==
  IF s = <<>> THEN 0
  ELSE 10 * digitsValue(SubSeq(s, 1, Len(s) - 1)) + digitValue(s[Len(s)])

RECURSIVE pow10(_)
pow10(n) == IF n = 0 THEN 1 ELSE 10 * pow10(n - 1)

\* the longest prefix of s whose symbols are all in S
RECURSIVE takeWhile(_, _)
takeWhile(s, S) ==
  IF s # <<>> /\ Head(s) \in S THEN <<Head(s)>> \o takeWhile(Tail(s), S)
  ELSE <<>>

dropPrefix(s, p) == SubSeq(s, Len(p) + 1, Len(s))

\* ms(str) for a string: the duration as a fraction of seconds
\* [ok |-> TRUE, num, den], or [ok |-> FALSE] where ms returns undefined
msParse(str) ==
  LET neg  == str # <<>> /\ Head(str) = Ch("-")
      s1   == IF neg THEN Tail(str) ELSE str
      intP == takeWhile(s1, Digits)
      s2   == dropPrefix(s1, intP)
      dot  == s2 # <<>> /\ Head(s2) = Ch(".")
      frac == IF dot THEN takeWhile(Tail(s2), Digits) ELSE <<>>
      s3   == IF dot THEN dropPrefix(Tail(s2), frac) ELSE s2
      numOk == IF dot THEN frac # <<>> ELSE intP # <<>>
      unit == lower(dropPrefix(s3, takeWhile(s3, {Ch(" ")})))
      per  == IF unit = <<>> THEN <<1, 1000>> ELSE msUnitSeconds(unit)
      mag  == digitsValue(intP) * pow10(Len(frac)) + digitsValue(frac)
  IN  IF Len(str) > 100 \/ str = <<>> \/ ~numOk \/ per = <<0, 0>>
      THEN [ok |-> FALSE]
      ELSE [ok |-> TRUE,
            num |-> (IF neg THEN 0 - mag ELSE mag) * per[1],
            den |-> pow10(Len(frac)) * per[2]]

\* jsonwebtoken lib/timespan.js for a string:
\* Math.floor(timestamp + ms(time) / 1000), or undefined
timespan(time, timestamp) ==
  LET d == msParse(time)
  IN  IF d.ok
      THEN [ok |-> TRUE, value |-> (timestamp * d.den + d.num) \div d.den]
      ELSE [ok |-> FALSE]

\* ------------------------------------------------------------------------
\* The signed token: header.payload.signature, three base64url segments

Dot == Ch(".")

HeaderSeg == [seg |-> "header", alg |-> "HS256", typ |-> "JWT"]
PayloadSeg(claims) == [seg |-> "payload", json |-> claims]
\* HMAC-SHA256 of "header.payload" under key
SignatureSeg(h, p, key) == [seg |-> "signature", of |-> <<h, p>>, key |-> key]

\* jwt.sign(payload, secret, {expiresIn}) at clock second `clock`
jwt_sign(payload, secret, expiresIn, clock) ==
  IF Falsy(secret)
  THEN [ok |-> FALSE, error |-> "secretOrPrivateKey must have a value"]
  ELSE IF Falsy(expiresIn)
  THEN [ok |-> FALSE, error |-> "expiresIn should be a number of seconds or string representing a timespan"]
  ELSE LET exp == timespan(expiresIn, clock)
       IN  IF ~exp.ok
           THEN [ok |-> FALSE, error |-> "expiresIn should be a number of seconds or string representing a timespan eg: 1d, 20h, 60"]
           ELSE LET claims == [deviceId |-> payload.deviceId,
                               iat |-> clock, exp |-> exp.value]
                    p == PayloadSeg(claims)
                IN  [ok |-> TRUE,
                     token |-> <<HeaderSeg, Dot, p, Dot,
                                 SignatureSeg(HeaderSeg, p, secret)>>]

\* jwt.verify(token, secret) at clock second `clock`: the payload, or the
\* class of the error thrown
jwt_verify(token, secret, clock) ==
  LET parts == split(token, Dot)
  IN  IF Falsy(token)
      THEN [ok |-> FALSE, error |-> "JsonWebTokenError", message |-> "jwt must be provided"]
      ELSE IF Len(parts) # 3
      THEN [ok |-> FALSE, error |-> "JsonWebTokenError", message |-> "jwt malformed"]
      ELSE IF ~(/\ parts[1] = <<HeaderSeg>>
                /\ Len(parts[2]) = 1
                /\ "seg" \in DOMAIN parts[2][1]
                /\ parts[2][1].seg = "payload")
      THEN [ok |-> FALSE, error |-> "JsonWebTokenError", message |-> "invalid token"]
      ELSE IF trim(parts[3]) = <<>>
      THEN [ok |-> FALSE, error |-> "JsonWebTokenError", message |-> "jwt signature is required"]
      ELSE IF Falsy(secret)
      THEN [ok |-> FALSE, error |-> "JsonWebTokenError", message |-> "secret or public key must be provided"]
      ELSE IF parts[3] # <<SignatureSeg(parts[1][1], parts[2][1], secret)>>
      THEN [ok |-> FALSE, error |-> "JsonWebTokenError", message |-> "invalid signature"]
      ELSE IF clock >= parts[2][1].json.exp
      THEN [ok |-> FALSE, error |-> "TokenExpiredError", message |-> "jwt expired"]
      ELSE [ok |-> TRUE, payload |-> parts[2][1].json]

\* ------------------------------------------------------------------------
\* JwtUtils

\* mutant: a default of one day
DefaultExpiresIn_oneDay == Str(<<"1", "d">>)
DefaultExpiresIn == Str(<<"1", "h">>)

\* mutant: the arguments of jwt.sign in the wrong order
JwtUtils_generateToken_swapped(deviceId, secret, expiresIn, clock) ==
  jwt_sign([deviceId |-> secret], deviceId,
           IF expiresIn = undefined THEN DefaultExpiresIn ELSE expiresIn,
           clock)

\* mutant: the deviceId is left out of the signed payload
JwtUtils_generateToken_blankPayload(deviceId, secret, expiresIn, clock) ==
  jwt_sign([deviceId |-> <<>>], secret,
           IF expiresIn = undefined THEN DefaultExpiresIn ELSE expiresIn,
           clock)

JwtUtils_generateToken(deviceId, secret, expiresIn, clock) ==
  jwt_sign([deviceId |-> deviceId], secret,
           IF expiresIn = undefined THEN DefaultExpiresIn ELSE expiresIn,
           clock)

\* mutant: jwt.decode in place of jwt.verify, the signature never checked
JwtUtils_verifyToken_decodeOnly(token, secret, clock) ==
  LET parts == split(token, Dot)
  IN  IF /\ Len(parts) = 3
         /\ Len(parts[2]) = 1
         /\ "seg" \in DOMAIN parts[2][1]
         /\ parts[2][1].seg = "payload"
      THEN IF clock >= parts[2][1].json.exp
           THEN [ok |-> FALSE, error |-> "Token has expired"]
           ELSE [ok |-> TRUE, payload |-> parts[2][1].json]
      ELSE [ok |-> FALSE, error |-> "Invalid token"]

\* mutant: JsonWebTokenError tested before its subclass TokenExpiredError
JwtUtils_verifyToken_baseClassFirst(token, secret, clock) ==
  LET r == jwt_verify(token, secret, clock)
  IN  IF r.ok THEN [ok |-> TRUE, payload |-> r.payload]
      ELSE IF r.error \in {"JsonWebTokenError", "TokenExpiredError"}
      THEN [ok |-> FALSE, error |-> "Invalid token"]
      ELSE [ok |-> FALSE, error |-> "Token verification failed"]

JwtUtils_verifyToken(token, secret, clock) ==
  LET r == jwt_verify(token, secret, clock)
  IN  IF r.ok THEN [ok |-> TRUE, payload |-> r.payload]
      ELSE IF r.error = "TokenExpiredError"
      THEN [ok |-> FALSE, error |-> "Token has expired"]
      ELSE IF r.error = "JsonWebTokenError"
      THEN [ok |-> FALSE, error |-> "Invalid token"]
      ELSE [ok |-> FALSE, error |-> "Token verification failed"]

\* /^Bearer\s+(.+)$/i : the capture, or null when the header does not match.
\* \s+ is greedy and (.+) needs one symbol that is no line terminator.
bearerMatch(authHeader) ==
  LET n == Len(authHeader)
      starts == {k \in 7..(n - 1) :
                   /\ lower(SubSeq(authHeader, 1, 6)) = Str(<<"b", "e", "a", "r", "e", "r">>)
                   /\ \A i \in 7..k : authHeader[i] \in WhiteSpace
                   /\ \A i \in (k + 1)..n : authHeader[i] \notin LineTerminators}
  IN  IF starts = {} THEN null
      ELSE LET k == CHOOSE m \in starts : \A o \in starts : o <= m
           IN  SubSeq(authHeader, k + 1, n)

\* mutant: the Bearer prefix is matched case-sensitively (no i flag)
JwtUtils_extractTokenFromHeader_caseSensitive(authHeader) ==
  IF Falsy(authHeader) THEN null
  ELSE IF /\ bearerMatch(authHeader) # null
          /\ SubSeq(authHeader, 1, 6) = Str(<<"B", "e", "a", "r", "e", "r">>)
  THEN bearerMatch(authHeader)
  ELSE OrElse(trim(authHeader), null)

\* mutant: the Bearer prefix is not stripped
JwtUtils_extractTokenFromHeader_keepPrefix(authHeader) ==
  IF Falsy(authHeader) THEN null
  ELSE OrElse(trim(authHeader), null)

JwtUtils_extractTokenFromHeader(authHeader) ==
  IF Falsy(authHeader) THEN null
  ELSE IF bearerMatch(authHeader) # null THEN bearerMatch(authHeader)
  ELSE OrElse(trim(authHeader), null)

\* mutant: only the number of segments is checked, empty ones are let through
JwtUtils_isValidTokenFormat_lengthOnly(token) ==
  IF Falsy(token) THEN FALSE
  ELSE Len(split(token, Dot)) = 3

JwtUtils_isValidTokenFormat(token) ==
  IF Falsy(token) THEN FALSE
  ELSE LET parts == split(token, Dot)
       IN  Len(parts) = 3 /\ \A i \in 1..Len(parts) : Len(parts[i]) > 0

\* ------------------------------------------------------------------------
\* Map<string, string>

EmptyMap == [k \in {} |-> <<>>]
MapGet(m, k) == IF k \in DOMAIN m THEN m[k] ELSE undefined
\* mutant: an existing entry is kept
MapSet_keepFirst(m, k, v) ==
  [x \in (DOMAIN m) \cup {k} |-> IF x \in DOMAIN m THEN m[x] ELSE v]
MapSet(m, k, v) == [x \in (DOMAIN m) \cup {k} |-> IF x = k THEN v ELSE m[x]]
MapDelete(m, k) == [x \in (DOMAIN m) \ {k} |-> m[x]]

\* ------------------------------------------------------------------------
\* AuthService.  Each operation returns its result together with the map it
\* leaves behind and the collaborators it called, in order.

\* mutant: the secret is checked before the deviceId
AuthService_generateToken_secretFirst(map, cfg, deviceId, clock) ==
  LET jwtSecret == cfg.JWT_SECRET
      expiresIn == OrElse(cfg.JWT_EXPIRES_IN, DefaultExpiresIn)
      signed == JwtUtils_generateToken(trim(deviceId), jwtSecret,
                                       expiresIn, clock)
  IN  IF Falsy(jwtSecret)
      THEN [ok |-> FALSE, error |-> "JWT secret is not configured",
            map |-> map, calls |-> <<"configService.get">>]
      ELSE IF Falsy(deviceId) \/ Len(trim(deviceId)) = 0
      THEN [ok |-> FALSE, error |-> "Device ID is required",
            map |-> map, calls |-> <<"configService.get">>]
      ELSE IF ~signed.ok
      THEN [ok |-> FALSE, error |-> signed.error, map |-> map,
            calls |-> <<"configService.get", "JwtUtils.generateToken">>]
      ELSE [ok |-> TRUE,
            value |-> [token |-> signed.token, deviceId |-> trim(deviceId),
                       expiresIn |-> expiresIn, issuedAt |-> clock],
            map |-> MapSet(map, trim(deviceId), signed.token),
            calls |-> <<"configService.get", "JwtUtils.generateToken",
                        "deviceTokenMap.set">>]

\* mutant: the device is registered before its token is encoded
AuthService_generateToken_setFirst(map, cfg, deviceId, clock) ==
  LET jwtSecret == cfg.JWT_SECRET
      expiresIn == OrElse(cfg.JWT_EXPIRES_IN, DefaultExpiresIn)
      signed == JwtUtils_generateToken(trim(deviceId), jwtSecret,
                                       expiresIn, clock)
  IN  IF Falsy(deviceId) \/ Len(trim(deviceId)) = 0
      THEN [ok |-> FALSE, error |-> "Device ID is required",
            map |-> map, calls |-> <<>>]
      ELSE IF Falsy(jwtSecret)
      THEN [ok |-> FALSE, error |-> "JWT secret is not configured",
            map |-> map, calls |-> <<"configService.get">>]
      ELSE IF ~signed.ok
      THEN [ok |-> FALSE, error |-> signed.error,
            map |-> MapSet(map, trim(deviceId), <<>>),
            calls |-> <<"configService.get", "deviceTokenMap.set",
                        "JwtUtils.generateToken">>]
      ELSE [ok |-> TRUE,
            value |-> [token |-> signed.token, deviceId |-> trim(deviceId),
                       expiresIn |-> expiresIn, issuedAt |-> clock],
            map |-> MapSet(map, trim(deviceId), signed.token),
            calls |-> <<"configService.get", "deviceTokenMap.set",
                        "JwtUtils.generateToken", "deviceTokenMap.set">>]

\* mutant: the map is keyed by the deviceId as received, not trimmed
AuthService_generateToken_rawKey(map, cfg, deviceId, clock) ==
  LET jwtSecret == cfg.JWT_SECRET
      expiresIn == OrElse(cfg.JWT_EXPIRES_IN, DefaultExpiresIn)
      signed == JwtUtils_generateToken(trim(deviceId), jwtSecret,
                                       expiresIn, clock)
  IN  IF Falsy(deviceId) \/ Len(trim(deviceId)) = 0
      THEN [ok |-> FALSE, error |-> "Device ID is required",
            map |-> map, calls |-> <<>>]
      ELSE IF Falsy(jwtSecret)
      THEN [ok |-> FALSE, error |-> "JWT secret is not configured",
            map |-> map, calls |-> <<"configService.get">>]
      ELSE IF ~signed.ok
      THEN [ok |-> FALSE, error |-> signed.error, map |-> map,
            calls |-> <<"configService.get", "JwtUtils.generateToken">>]
      ELSE [ok |-> TRUE,
            value |-> [token |-> signed.token, deviceId |-> trim(deviceId),
                       expiresIn |-> expiresIn, issuedAt |-> clock],
            map |-> MapSet(map, deviceId, signed.token),
            calls |-> <<"configService.get", "JwtUtils.generateToken",
                        "deviceTokenMap.set">>]

\* mutant: a device that already holds a token is handed that token again
AuthService_generateToken_keepStored(map, cfg, deviceId, clock) ==
  IF Falsy(deviceId) \/ Len(trim(deviceId)) = 0
  THEN [ok |-> FALSE, error |-> "Device ID is required",
        map |-> map, calls |-> <<>>]
  ELSE IF Falsy(cfg.JWT_SECRET)
  THEN [ok |-> FALSE, error |-> "JWT secret is not configured",
        map |-> map, calls |-> <<"configService.get">>]
  ELSE
    LET expiresIn == OrElse(cfg.JWT_EXPIRES_IN, DefaultExpiresIn)
        signed == JwtUtils_generateToken(trim(deviceId), cfg.JWT_SECRET,
                                         expiresIn, clock)
        token == IF trim(deviceId) \in DOMAIN map
                 THEN map[trim(deviceId)] ELSE signed.token
    IN  IF ~signed.ok
        THEN [ok |-> FALSE, error |-> signed.error, map |-> map,
              calls |-> <<"configService.get", "JwtUtils.generateToken">>]
        ELSE [ok |-> TRUE,
              value |-> [token |-> token, deviceId |-> trim(deviceId),
                         expiresIn |-> expiresIn, issuedAt |-> clock],
              map |-> MapSet(map, trim(deviceId), token),
              calls |-> <<"configService.get", "JwtUtils.generateToken",
                          "deviceTokenMap.set">>]

AuthService_generateToken(map, cfg, deviceId, clock) ==
  IF Falsy(deviceId) \/ Len(trim(deviceId)) = 0
  THEN [ok |-> FALSE, error |-> "Device ID is required",
        map |-> map, calls |-> <<>>]
  ELSE
    LET jwtSecret == cfg.JWT_SECRET
        expiresIn == OrElse(cfg.JWT_EXPIRES_IN, DefaultExpiresIn)
    IN  IF Falsy(jwtSecret)
        THEN [ok |-> FALSE, error |-> "JWT secret is not configured",
              map |-> map, calls |-> <<"configService.get">>]
        ELSE
          LET signed == JwtUtils_generateToken(trim(deviceId), jwtSecret,
                                               expiresIn, clock)
          IN  IF ~signed.ok
              THEN [ok |-> FALSE, error |-> signed.error, map |-> map,
                    calls |-> <<"configService.get",
                                "JwtUtils.generateToken">>]
              ELSE [ok |-> TRUE,
                    value |-> [token |-> signed.token,
                               deviceId |-> trim(deviceId),
                               expiresIn |-> expiresIn,
                               issuedAt |-> clock],
                    map |-> MapSet(map, trim(deviceId), signed.token),
                    calls |-> <<"configService.get",
                                "JwtUtils.generateToken",
                                "deviceTokenMap.set">>]

\* mutant: the lookup trims its argument as issuance does
AuthService_getStoredToken_trimmed(map, deviceId) ==
  OrElse(MapGet(map, trim(deviceId)), null)

AuthService_getStoredToken(map, deviceId) ==
  OrElse(MapGet(map, deviceId), null)

\* mutant: revoking one device clears the whole map
AuthService_revokeToken_clearAll(map, deviceId) ==
  EmptyMap

AuthService_revokeToken(map, deviceId) ==
  MapDelete(map, deviceId)

\* mutant: the device having any stored token is enough
AuthService_isValidStoredToken_presenceOnly(map, deviceId, token) ==
  deviceId \in DOMAIN map

AuthService_isValidStoredToken(map, deviceId, token) ==
  MapGet(map, deviceId) = token

\* ------------------------------------------------------------------------
\* JwtAuthGuard.canActivate: the request it leaves behind, whether the
\* route handler may run, the exception thrown otherwise, and the checks it
\* performed, in order.

\* mutant: the secret is handed to verifyToken without being checked
canActivate_noSecretCheck(request, cfg, clock) ==
  LET token == JwtUtils_extractTokenFromHeader(request.authorization)
      verified == JwtUtils_verifyToken(token, cfg.JWT_SECRET, clock)
      Reject(msg, steps) ==
        [ok |-> FALSE, request |-> request,
         exception |-> [type |-> "UnauthorizedException", message |-> msg],
         calls |-> steps]
  IN  IF Falsy(token)
      THEN Reject("No authorization token provided", <<"extract">>)
      ELSE IF ~JwtUtils_isValidTokenFormat(token)
      THEN Reject("Invalid token format", <<"extract", "format">>)
      ELSE IF ~verified.ok
      THEN Reject(verified.error, <<"extract", "format", "secret", "verify">>)
      ELSE [ok |-> TRUE,
            request |-> [request EXCEPT !.jwtPayload = verified.payload],
            calls |-> <<"extract", "format", "secret", "verify">>]

\* mutant: the missing secret is reported as a server error of its own class
canActivate_configErrorEscapes(request, cfg, clock) ==
  LET token == JwtUtils_extractTokenFromHeader(request.authorization)
      verified == JwtUtils_verifyToken(token, cfg.JWT_SECRET, clock)
      Reject(type, msg, steps) ==
        [ok |-> FALSE, request |-> request,
         exception |-> [type |-> type, message |-> msg],
         calls |-> steps]
  IN  IF Falsy(token)
      THEN Reject("UnauthorizedException", "No authorization token provided",
                  <<"extract">>)
      ELSE IF ~JwtUtils_isValidTokenFormat(token)
      THEN Reject("UnauthorizedException", "Invalid token format",
                  <<"extract", "format">>)
      ELSE IF Falsy(cfg.JWT_SECRET)
      THEN Reject("InternalServerErrorException", "JWT configuration error",
                  <<"extract", "format", "secret">>)
      ELSE IF ~verified.ok
      THEN Reject("UnauthorizedException", verified.error,
                  <<"extract", "format", "secret", "verify">>)
      ELSE [ok |-> TRUE,
            request |-> [request EXCEPT !.jwtPayload = verified.payload],
            calls |-> <<"extract", "format", "secret", "verify">>]

\* mutant: a failed verification is swallowed and the request let through
canActivate_skipVerify(request, cfg, clock) ==
  LET token == JwtUtils_extractTokenFromHeader(request.authorization)
      verified == JwtUtils_verifyToken(token, cfg.JWT_SECRET, clock)
      Reject(msg, steps) ==
        [ok |-> FALSE, request |-> request,
         exception |-> [type |-> "UnauthorizedException", message |-> msg],
         calls |-> steps]
  IN  IF Falsy(token)
      THEN Reject("No authorization token provided", <<"extract">>)
      ELSE IF ~JwtUtils_isValidTokenFormat(token)
      THEN Reject("Invalid token format", <<"extract", "format">>)
      ELSE IF Falsy(cfg.JWT_SECRET)
      THEN Reject("JWT configuration error", <<"extract", "format", "secret">>)
      ELSE [ok |-> TRUE,
            request |-> IF verified.ok
                        THEN [request EXCEPT !.jwtPayload = verified.payload]
                        ELSE request,
            calls |-> <<"extract", "format", "secret", "verify">>]

\* mutant: the payload is attached as soon as it is readable, before the
\* signature and the expiry are verified
canActivate_attachEarly(request, cfg, clock) ==
  LET token == JwtUtils_extractTokenFromHeader(request.authorization)
      verified == JwtUtils_verifyToken(token, cfg.JWT_SECRET, clock)
      parts == split(token, Dot)
      readable == /\ Len(parts[2]) = 1
                  /\ "seg" \in DOMAIN parts[2][1]
                  /\ parts[2][1].seg = "payload"
      early == IF readable
               THEN [request EXCEPT !.jwtPayload = parts[2][1].json]
               ELSE request
      Reject(req, msg, steps) ==
        [ok |-> FALSE, request |-> req,
         exception |-> [type |-> "UnauthorizedException", message |-> msg],
         calls |-> steps]
  IN  IF Falsy(token)
      THEN Reject(request, "No authorization token provided", <<"extract">>)
      ELSE IF ~JwtUtils_isValidTokenFormat(token)
      THEN Reject(request, "Invalid token format", <<"extract", "format">>)
      ELSE IF Falsy(cfg.JWT_SECRET)
      THEN Reject(early, "JWT configuration error",
                  <<"extract", "format", "secret">>)
      ELSE IF ~verified.ok
      THEN Reject(early, verified.error,
                  <<"extract", "format", "secret", "verify">>)
      ELSE [ok |-> TRUE,
            request |-> [request EXCEPT !.jwtPayload = verified.payload],
            calls |-> <<"extract", "format", "secret", "verify">>]

\* a guard that looks the secret up before the structural check
canActivate_secretBeforeFormat(request, cfg, clock) ==
  LET authHeader == request.authorization
      token == JwtUtils_extractTokenFromHeader(authHeader)
      jwtSecret == cfg.JWT_SECRET
      verified == JwtUtils_verifyToken(token, jwtSecret, clock)
      Reject(msg, steps) ==
        [ok |-> FALSE, request |-> request,
         exception |-> [type |-> "UnauthorizedException", message |-> msg],
         calls |-> steps]
  IN  IF Falsy(token)
      THEN Reject("No authorization token provided", <<"extract">>)
      ELSE IF Falsy(jwtSecret)
      THEN Reject("JWT configuration error", <<"extract", "secret">>)
      ELSE IF ~JwtUtils_isValidTokenFormat(token)
      THEN Reject("Invalid token format", <<"extract", "secret", "format">>)
      ELSE IF ~verified.ok
      THEN Reject(verified.error, <<"extract", "secret", "format", "verify">>)
      ELSE [ok |-> TRUE,
            request |-> [request EXCEPT !.jwtPayload = verified.payload],
            calls |-> <<"extract", "secret", "format", "verify">>]

canActivate(request, cfg, clock) ==
  LET authHeader == request.authorization
      token == JwtUtils_extractTokenFromHeader(authHeader)
      jwtSecret == cfg.JWT_SECRET
      verified == JwtUtils_verifyToken(token, jwtSecret, clock)
      Reject(msg, steps) ==
        [ok |-> FALSE, request |-> request,
         exception |-> [type |-> "UnauthorizedException", message |-> msg],
         calls |-> steps]
  IN  IF Falsy(token)
      THEN Reject("No authorization token provided", <<"extract">>)
      ELSE IF ~JwtUtils_isValidTokenFormat(token)
      THEN Reject("Invalid token format", <<"extract", "format">>)
      ELSE IF Falsy(jwtSecret)
      THEN Reject("JWT configuration error", <<"extract", "format", "secret">>)
      ELSE IF ~verified.ok
      THEN Reject(verified.error, <<"extract", "format", "secret", "verify">>)
      ELSE [ok |-> TRUE,
            request |-> [request EXCEPT !.jwtPayload = verified.payload],
            calls |-> <<"extract", "format", "secret", "verify">>]

\* ------------------------------------------------------------------------
\* jwt decorators and the routes of ProtectedController

GetJwtPayload(request) == request.jwtPayload

\* mutant: no '' default, the missing deviceId is handed on as undefined
DeviceId_noDefault(request) ==
  IF "jwtPayload" \notin DOMAIN request THEN undefined
  ELSE IF request.jwtPayload = noPayload THEN undefined
  ELSE request.jwtPayload.deviceId

\* request.jwtPayload?.deviceId ?? ''
DeviceId(request) ==
  IF "jwtPayload" \notin DOMAIN request THEN <<>>
  ELSE IF request.jwtPayload = noPayload THEN <<>>
  ELSE request.jwtPayload.deviceId

\* new Date(seconds * 1000), or null for a falsy number of seconds
DateOrNull(seconds) ==
  IF seconds # 0 THEN [epochMs |-> seconds * 1000] ELSE [null |-> TRUE]

getProfile(payload) ==
  [message |-> "This is a protected route",
   deviceId |-> payload.deviceId,
   tokenIssuedAt |-> DateOrNull(payload.iat),
   tokenExpiresAt |-> DateOrNull(payload.exp)]

getDeviceInfo(deviceId, clock) ==
  [message |-> "Device information",
   deviceId |-> deviceId,
   timestamp |-> clock]

\* ------------------------------------------------------------------------
\* Inputs

D1 == Str(<<"d", "1">>)
D2 == Str(<<"d", "2">>)
DeviceIdInputs ==
  {<<>>, Str(<<" ", "\t">>), D1, Str(<<" ", "d", "1", " ">>), D2}

K1 == Str(<<"k", "1">>)
K2 == Str(<<"k", "2">>)
SecretValues == {undefined, <<>>, K1}

ExpiresInValues ==
  {undefined, <<>>, Str(<<"1", "s">>), Str(<<"0">>), Str(<<"s", "o", "o", "n">>)}

\* a token signed by somebody who does not hold the configured secret
ForgedToken ==
  LET p == PayloadSeg([deviceId |-> D1, iat |-> 1, exp |-> 3601])
  IN  <<HeaderSeg, Dot, p, Dot, SignatureSeg(HeaderSeg, p, K2)>>

BearerPrefix == Str(<<"B", "e", "a", "r", "e", "r", " ">>)

\* authorization header values a client holding the tokens ts can send
HeaderInputs(ts) ==
  {undefined, Str(<<" ">>), Str(<<"a", ".", "b">>),
   Str(<<"b", "E", "A", "R", "E", "R", "\t">>) \o ForgedToken}
  \cup {BearerPrefix \o t : t \in ts}

Routes == {"profile", "device-info"}

\* ------------------------------------------------------------------------
\* State

VARIABLES
  now,            \* Date.now() in whole seconds
  config,         \* ConfigService: JWT_SECRET and JWT_EXPIRES_IN
  deviceTokenMap, \* AuthService.deviceTokenMap
  last,           \* the last AuthService call: arguments, outcome, calls made
  request,        \* the request on a guarded route and how far it has got
  issued,         \* the issuance results handed to clients so far
  lastIssued,     \* per key: the token of the latest issuance not yet revoked
  codec,          \* a direct use of JwtUtils: one encode, then decodes
  tasks,          \* per client: the service call in flight and how far it got
  userRepository, \* the rows of table users
  projectRepository \* the rows of table projects, soft-deleted ones included

vars == <<now, config, deviceTokenMap, last, request, issued, lastIssued, codec,
          tasks, userRepository, projectRepository>>

NoCall == [op |-> "none"]
NoRequest == [stage |-> "none"]
NoCodec == [phase |-> "idle"]
Clients == {"c1", "c2"}
Idle == [pc |-> "idle"]
NoTasks == [c \in Clients |-> Idle]

Init ==
  /\ now = 1
  /\ config \in [JWT_SECRET : SecretValues, JWT_EXPIRES_IN : ExpiresInValues]
  /\ deviceTokenMap = EmptyMap
  /\ last = NoCall
  /\ request = NoRequest
  /\ issued = {}
  /\ lastIssued = EmptyMap
  /\ codec = NoCodec
  /\ tasks = NoTasks
  /\ userRepository = {}
  /\ projectRepository = {}

Tick ==
  /\ now < MaxTime
  /\ now' = now + 1
  /\ UNCHANGED <<config, deviceTokenMap, last, request, issued, lastIssued, codec,
                 tasks, userRepository, projectRepository>>

\* AuthService.generateToken(deviceId)
GenerateToken(deviceId) ==
  \E r \in {AuthService_generateToken(deviceTokenMap, config, deviceId, now)} :
  \E handed \in {IF r.ok THEN issued \cup {r.value} ELSE issued} :
      /\ Cardinality(handed) <= MaxIssued
      /\ deviceTokenMap' = r.map
      /\ last' = [op |-> "generateToken", deviceId |-> deviceId,
                  ok |-> r.ok,
                  value |-> IF r.ok THEN r.value ELSE noPayload,
                  error |-> IF r.ok THEN "" ELSE r.error,
                  calls |-> r.calls]
      /\ issued' = handed
      /\ lastIssued' =
           IF r.ok
           THEN [k \in DOMAIN lastIssued \cup {trim(deviceId)} |->
                   IF k = trim(deviceId) THEN r.value.token ELSE lastIssued[k]]
           ELSE lastIssued
      /\ UNCHANGED <<now, config, request, codec,
                     tasks, userRepository, projectRepository>>

\* AuthService.revokeToken(deviceId)
RevokeToken(deviceId) ==
  /\ deviceTokenMap' = AuthService_revokeToken(deviceTokenMap, deviceId)
  /\ last' = [op |-> "revokeToken", deviceId |-> deviceId,
              ok |-> TRUE, value |-> noPayload, error |-> "", calls |-> <<>>]
  /\ lastIssued' = [k \in DOMAIN lastIssued \ {deviceId} |-> lastIssued[k]]
  /\ UNCHANGED <<now, config, request, issued, codec,
                 tasks, userRepository, projectRepository>>

\* a client sends a request to a route of ProtectedController
Arrive(header) ==
  /\ request.stage \in {"none", "rejected", "responded"}
  /\ request' = [stage |-> "guard", authorization |-> header,
                 jwtPayload |-> noPayload]
  /\ UNCHANGED <<now, config, deviceTokenMap, last, issued, lastIssued, codec,
                 tasks, userRepository, projectRepository>>

\* a guard that also asks the service whether the token is the stored one
Guard_checksRegistry ==
  /\ request.stage = "guard"
  /\ LET g == canActivate(request, config, now)
         current == g.ok /\ AuthService_isValidStoredToken(deviceTokenMap,
                       g.request.jwtPayload.deviceId,
                       JwtUtils_extractTokenFromHeader(request.authorization))
     IN  request' =
           IF current
           THEN [g.request EXCEPT !.stage = "handler"]
                  @@ [guardedAt |-> now, checks |-> g.calls]
           ELSE [request EXCEPT !.stage = "rejected"]
                  @@ [guardedAt |-> now, checks |-> g.calls,
                      exception |-> IF g.ok
                                    THEN [type |-> "UnauthorizedException",
                                          message |-> "Invalid token"]
                                    ELSE g.exception]
  /\ UNCHANGED <<now, config, deviceTokenMap, last, issued, lastIssued, codec,
                 tasks, userRepository, projectRepository>>

\* @UseGuards(JwtAuthGuard): the guard runs before the route handler
Guard ==
  /\ request.stage = "guard"
  /\ LET g == canActivate(request, config, now)
     IN  request' =
           IF g.ok
           THEN [g.request EXCEPT !.stage = "handler"]
                  @@ [guardedAt |-> now, checks |-> g.calls]
           ELSE [g.request EXCEPT !.stage = "rejected"]
                  @@ [guardedAt |-> now, checks |-> g.calls,
                      exception |-> g.exception]
  /\ UNCHANGED <<now, config, deviceTokenMap, last, issued, lastIssued, codec,
                 tasks, userRepository, projectRepository>>

\* the route handler of ProtectedController runs and the response is sent
Handler(route) ==
  /\ request.stage = "handler"
  /\ request' =
       [request EXCEPT !.stage = "responded"]
         @@ [route |-> route,
             response |->
               IF route = "profile"
               THEN getProfile(GetJwtPayload(request))
               ELSE getDeviceInfo(DeviceId(request), now)]
  /\ UNCHANGED <<now, config, deviceTokenMap, last, issued, lastIssued, codec,
                 tasks, userRepository, projectRepository>>

TokensOf(is) == {i.token : i \in is}

Next ==
  \/ Tick
  \/ \E d \in DeviceIdInputs : GenerateToken(d)
  \/ \E d \in DeviceIdInputs : RevokeToken(d)
  \/ \E h \in HeaderInputs(TokensOf(issued)) : Arrive(h)
  \/ Guard
  \/ \E r \in Routes : Handler(r)

Spec == Init /\ [][Next]_vars

\* ------------------------------------------------------------------------
\* JwtUtils used on its own (as jwt.utils.spec.ts does): a token is encoded
\* from any device id, secret and expiry expression, then decoded with any
\* secret while the clock advances.

CodecDeviceIds == DeviceIdInputs
CodecSecrets == {<<>>, K1, K2}
CodecExpiresIn ==
  {undefined, Str(<<"1", "s">>), Str(<<"1", ".", "5", " ", "S", "e", "c", "s">>),
   Str(<<"0">>), Str(<<"5", "0", "0">>), Str(<<"-", "1", "s">>),
   Str(<<"s", "o", "o", "n">>)}

CodecInit ==
  /\ now = 1
  /\ config = [JWT_SECRET |-> undefined, JWT_EXPIRES_IN |-> undefined]
  /\ deviceTokenMap = EmptyMap
  /\ last = NoCall
  /\ request = NoRequest
  /\ issued = {}
  /\ lastIssued = EmptyMap
  /\ codec = NoCodec
  /\ tasks = NoTasks
  /\ userRepository = {}
  /\ projectRepository = {}

\* JwtUtils.generateToken(deviceId, secret, expiresIn)
Encode(deviceId, secret, expiresIn) ==
  /\ codec.phase = "idle"
  /\ codec' = [phase |-> "encoded", deviceId |-> deviceId, secret |-> secret,
               expiresIn |-> expiresIn, at |-> now,
               encoded |-> JwtUtils_generateToken(deviceId, secret,
                                                  expiresIn, now),
               expiredSeen |-> FALSE]
  /\ UNCHANGED <<now, config, deviceTokenMap, last, request, issued, lastIssued,
                 tasks, userRepository, projectRepository>>

\* JwtUtils.verifyToken(token, secret) on the encoded token
Decode(secret) ==
  /\ codec.phase \in {"encoded", "decoded"}
  /\ codec.encoded.ok
  /\ LET r == JwtUtils_verifyToken(codec.encoded.token, secret, now)
     IN  codec' =
           [phase |-> "decoded", deviceId |-> codec.deviceId,
            secret |-> codec.secret, expiresIn |-> codec.expiresIn,
            at |-> codec.at, encoded |-> codec.encoded,
            expiredSeen |-> \/ codec.expiredSeen
                            \/ (~r.ok /\ r.error = "Token has expired"),
            decodeSecret |-> secret, decodeAt |-> now, decoded |-> r]
  /\ UNCHANGED <<now, config, deviceTokenMap, last, request, issued, lastIssued,
                 tasks, userRepository, projectRepository>>

CodecNext ==
  \/ Tick
  \/ \E d \in CodecDeviceIds, s \in CodecSecrets, e \in CodecExpiresIn :
        Encode(d, s, e)
  \/ \E s \in CodecSecrets : Decode(s)

CodecSpec == CodecInit /\ [][CodecNext]_vars

\* ------------------------------------------------------------------------
\* Properties

Guarded == request.stage \in {"rejected", "handler", "responded"}
Admitted == request.stage \in {"handler", "responded"}
PresentedToken == JwtUtils_extractTokenFromHeader(request.authorization)
ClaimsOf(token) == token[3].json

\* C1: the route handler of a guarded request runs only when the guard has
\* extracted a token, the token passed the structural check, the secret was
\* present and verifyToken succeeded at the time the guard ran; in every
\* other case the guard threw UnauthorizedException and no handler ran.
C1_HandlerOnlyBehindGate ==
  Guarded =>
    LET passes ==
          /\ ~Falsy(PresentedToken)
          /\ JwtUtils_isValidTokenFormat(PresentedToken)
          /\ ~Falsy(config.JWT_SECRET)
          /\ JwtUtils_verifyToken(PresentedToken, config.JWT_SECRET,
                                  request.guardedAt).ok
    IN  /\ Admitted <=> passes
        /\ Admitted => request.checks = <<"extract", "format", "secret", "verify">>
        /\ ~Admitted => /\ request.stage = "rejected"
                        /\ request.exception.type = "UnauthorizedException"
                        /\ "response" \notin DOMAIN request

C1_Witness ==
  /\ request.stage = "responded"
  /\ request.route = "profile"
  /\ request.response.deviceId = D1

\* C2: request.jwtPayload is written only when the guard admits the request,
\* and then holds the complete claims {deviceId, iat, exp} carried by the
\* token of that request's own authorization header; before the guard and
\* after any rejection it is what it was on arrival (undefined).
C2_ContextOnlyOnSuccess ==
  /\ request.stage \in {"guard", "rejected"} => request.jwtPayload = noPayload
  /\ Admitted =>
       /\ DOMAIN request.jwtPayload = {"deviceId", "iat", "exp"}
       /\ request.jwtPayload = ClaimsOf(PresentedToken)

C2_Witness ==
  /\ request.stage = "rejected"
  /\ request.exception.message = "Invalid token"
  /\ request.jwtPayload = noPayload

\* C3: after any sequence of issuances and revokes the map holds, for each
\* key, exactly the token of the latest successful issuance stored under
\* that key that no revoke of that key has followed, and getStoredToken
\* returns it, or null when there is none.
C3_LastWriteWins ==
  /\ DOMAIN deviceTokenMap = DOMAIN lastIssued
  /\ \A d \in DeviceIdInputs \cup DOMAIN deviceTokenMap \cup DOMAIN lastIssued :
       AuthService_getStoredToken(deviceTokenMap, d) =
         IF d \in DOMAIN lastIssued THEN lastIssued[d] ELSE null

C3_Witness ==
  \E i1, i2 \in issued :
    /\ i1.deviceId = i2.deviceId
    /\ i1.issuedAt < i2.issuedAt
    /\ AuthService_getStoredToken(deviceTokenMap, i1.deviceId) = i2.token

BlankDeviceId(d) == Falsy(d) \/ trim(d) = <<>>

\* C4: generateToken with an empty or whitespace-only deviceId fails with
\* 'Device ID is required', whatever the configured secret, without calling
\* the codec or writing the map: the map is unchanged by the call.
C4_BlankDeviceIdRejected ==
  [][(last'.op = "generateToken" /\ BlankDeviceId(last'.deviceId)) =>
       /\ ~last'.ok
       /\ last'.error = "Device ID is required"
       /\ last'.calls = <<>>
       /\ deviceTokenMap' = deviceTokenMap]_vars

C4_Witness ==
  /\ last.op = "generateToken"
  /\ last.deviceId = Str(<<" ", "\t">>)
  /\ ~last.ok
  /\ deviceTokenMap # EmptyMap

\* C5: a generateToken call that fails, for whichever reason, leaves the map
\* as it was; the map is written only after the codec has returned a token.
C5_FailedIssuanceKeepsRegistry ==
  [][(last'.op = "generateToken") =>
       /\ ~last'.ok =>
            /\ deviceTokenMap' = deviceTokenMap
            /\ \A i \in 1..Len(last'.calls) : last'.calls[i] # "deviceTokenMap.set"
       /\ last'.ok =>
            last'.calls = <<"configService.get", "JwtUtils.generateToken",
                            "deviceTokenMap.set">>]_vars

C5_Witness ==
  /\ last.op = "generateToken"
  /\ ~last.ok
  /\ last.calls = <<"configService.get", "JwtUtils.generateToken">>

\* C6: a successful generateToken(d) returns {token, deviceId, expiresIn,
\* issuedAt} with deviceId = trim(d); right after it getStoredToken(trim(d))
\* is that token and isValidStoredToken(trim(d), token) is true.
C6_IssuanceResult ==
  (last.op = "generateToken" /\ last.ok) =>
    /\ DOMAIN last.value = {"token", "deviceId", "expiresIn", "issuedAt"}
    /\ last.value.deviceId = trim(last.deviceId)
    /\ AuthService_getStoredToken(deviceTokenMap, trim(last.deviceId))
         = last.value.token
    /\ AuthService_isValidStoredToken(deviceTokenMap, trim(last.deviceId),
                                      last.value.token)

C6_Witness ==
  /\ last.op = "generateToken"
  /\ last.ok
  /\ last.deviceId = Str(<<" ", "d", "1", " ">>)
  /\ last.value.deviceId = D1

\* C7: a request whose authorization header is "Bearer " followed by a token
\* returned by a successful issuance, guarded before that token's exp, is
\* admitted, and its handler sees the deviceId the issuance returned (the
\* trimmed deviceId, a non-empty string) through GetJwtPayload and DeviceId.
C7_IssuedTokenPassesGate ==
  \A i \in issued :
    (/\ Guarded
     /\ request.authorization = BearerPrefix \o i.token
     /\ request.guardedAt < ClaimsOf(i.token).exp) =>
      /\ Admitted
      /\ i.deviceId = trim(i.deviceId) /\ i.deviceId # <<>>
      /\ DeviceId(request) = i.deviceId
      /\ GetJwtPayload(request).deviceId = i.deviceId
      /\ request.stage = "responded" => request.response.deviceId = i.deviceId

C7_Witness ==
  \E i \in issued :
    /\ request.stage = "responded"
    /\ request.route = "device-info"
    /\ request.authorization = BearerPrefix \o i.token
    /\ request.guardedAt > i.issuedAt
    /\ request.response.deviceId = i.deviceId


\* ------------------------------------------------------------------------
\* Properties of JwtUtils on its own (CodecSpec)

Encoded == codec.phase \in {"encoded", "decoded"}
DecodedWith(secret) == codec.phase = "decoded" /\ codec.decodeSecret = secret
EffectiveExpiresIn ==
  IF codec.expiresIn = undefined THEN DefaultExpiresIn ELSE codec.expiresIn
\* the expiry expression is a duration, of at least one second
IsDuration == msParse(EffectiveExpiresIn).ok
AtLeastOneSecond ==
  IsDuration /\ msParse(EffectiveExpiresIn).num >= msParse(EffectiveExpiresIn).den

\* C8 as stated: for every non-empty deviceId, every (present) secret and
\* every duration, encoding succeeds and decoding with the same secret
\* returns claims whose deviceId is the trimmed input and whose exp > iat.
C8_AsStated ==
  (Encoded /\ codec.deviceId # <<>> /\ ~Falsy(codec.secret) /\ IsDuration) =>
    /\ codec.encoded.ok
    /\ DecodedWith(codec.secret) =>
         /\ codec.decoded.ok
         /\ codec.decoded.payload.deviceId = trim(codec.deviceId)
         /\ codec.decoded.payload.exp > codec.decoded.payload.iat

\* C8 amended: for every deviceId, every non-empty secret and every expiry
\* expression that is a duration of at least one second (or is omitted),
\* generateToken returns a token, and verifyToken with the same secret, at
\* any time before the token's exp, returns claims whose deviceId is the
\* deviceId passed to generateToken unchanged (JwtUtils does not trim),
\* whose iat is the time of encoding and whose exp is greater than iat.
C8_RoundTrip ==
  (Encoded /\ ~Falsy(codec.secret) /\ AtLeastOneSecond) =>
    /\ codec.encoded.ok
    /\ (/\ DecodedWith(codec.secret)
        /\ codec.decodeAt < ClaimsOf(codec.encoded.token).exp) =>
         /\ codec.decoded.ok
         /\ DOMAIN codec.decoded.payload = {"deviceId", "iat", "exp"}
         /\ codec.decoded.payload.deviceId = codec.deviceId
         /\ codec.decoded.payload.iat = codec.at
         /\ codec.decoded.payload.exp > codec.decoded.payload.iat

C8_Witness ==
  /\ DecodedWith(codec.secret)
  /\ codec.decoded.ok
  /\ codec.deviceId = Str(<<" ", "d", "1", " ">>)
  /\ codec.decoded.payload.deviceId = codec.deviceId
  /\ codec.decodeAt > codec.at

\* C9: verifyToken with a secret other than the one the token was signed
\* with fails with 'Invalid token' at every time, also once the token has
\* expired; it never returns claims.
C9_WrongSecretRejected ==
  (codec.phase = "decoded" /\ codec.decodeSecret # codec.secret) =>
    /\ ~codec.decoded.ok
    /\ codec.decoded.error = "Invalid token"
    /\ "payload" \notin DOMAIN codec.decoded

C9_Witness ==
  /\ codec.phase = "decoded"
  /\ codec.decodeSecret = K2
  /\ codec.secret = K1
  /\ codec.decodeAt >= ClaimsOf(codec.encoded.token).exp
  /\ codec.decoded.error = "Invalid token"

\* C10: verifyToken with the signing secret succeeds exactly while
\* now < exp and fails with 'Token has expired' from now = exp on (no
\* clock tolerance); once a token was rejected as expired no later decode
\* accepts it, and a token issued with expiry "0" is never accepted.
C10_ExpiryExact ==
  DecodedWith(codec.secret) =>
    /\ codec.decoded.ok <=> codec.decodeAt < ClaimsOf(codec.encoded.token).exp
    /\ ~codec.decoded.ok => codec.decoded.error = "Token has expired"
    /\ codec.expiredSeen => ~codec.decoded.ok
    /\ codec.expiresIn = Str(<<"0">>) => ~codec.decoded.ok

C10_Witness ==
  /\ DecodedWith(codec.secret)
  /\ codec.decodeAt = ClaimsOf(codec.encoded.token).exp
  /\ codec.decodeAt > codec.at
  /\ codec.decoded.error = "Token has expired"

\* ------------------------------------------------------------------------
\* Properties of the service and the guard (Spec), continued

SecretAbsent == Falsy(config.JWT_SECRET)

\* C11 as stated: while JWT_SECRET is absent every generateToken call and
\* every guard invocation fails with the configuration error, whatever the
\* deviceId or the authorization header; none succeeds and the map never
\* changes.
C11_AsStated ==
  SecretAbsent =>
    /\ deviceTokenMap = EmptyMap
    /\ last.op = "generateToken" =>
         ~last.ok /\ last.error = "JWT secret is not configured"
    /\ Guarded =>
         /\ request.stage = "rejected"
         /\ request.exception.message = "JWT configuration error"

\* C11 amended: while JWT_SECRET is absent (undefined or empty) no
\* generateToken call and no guard invocation succeeds and the map never
\* changes; a call whose deviceId is not blank fails with 'JWT secret is not
\* configured' and a request whose header carries a three-segment token is
\* rejected with 'JWT configuration error', while a blank deviceId, a
\* missing token and a malformed token are rejected by the earlier checks
\* with their own messages.
C11_SecretAbsentNothingSucceeds ==
  SecretAbsent =>
    /\ deviceTokenMap = EmptyMap
    /\ issued = {}
    /\ last.op = "generateToken" =>
         /\ ~last.ok
         /\ last.error = IF BlankDeviceId(last.deviceId)
                         THEN "Device ID is required"
                         ELSE "JWT secret is not configured"
    /\ Guarded =>
         /\ request.stage = "rejected"
         /\ request.exception.type = "UnauthorizedException"
         /\ request.jwtPayload = noPayload
         /\ request.exception.message =
              IF Falsy(PresentedToken)
              THEN "No authorization token provided"
              ELSE IF ~JwtUtils_isValidTokenFormat(PresentedToken)
              THEN "Invalid token format"
              ELSE "JWT configuration error"

C11_Witness ==
  /\ SecretAbsent
  /\ last.op = "generateToken"
  /\ last.deviceId = D1
  /\ last.error = "JWT secret is not configured"
  /\ request.stage = "rejected"
  /\ request.exception.message = "JWT configuration error"

\* C12: every rejection by the guard, whichever check failed, is an
\* UnauthorizedException carrying nothing but a message: 'No authorization
\* token provided', 'Invalid token format', 'JWT configuration error',
\* 'Token has expired' or 'Invalid token', according to the check that
\* failed; the rejected request is otherwise what it was on arrival.
C12_RejectionsUniform ==
  request.stage = "rejected" =>
    /\ DOMAIN request.exception = {"type", "message"}
    /\ request.exception.type = "UnauthorizedException"
    /\ request.jwtPayload = noPayload
    /\ "response" \notin DOMAIN request
    /\ request.exception.message =
         IF Falsy(PresentedToken)
         THEN "No authorization token provided"
         ELSE IF ~JwtUtils_isValidTokenFormat(PresentedToken)
         THEN "Invalid token format"
         ELSE IF SecretAbsent
         THEN "JWT configuration error"
         ELSE IF jwt_verify(PresentedToken, config.JWT_SECRET,
                            request.guardedAt).error = "TokenExpiredError"
         THEN "Token has expired"
         ELSE "Invalid token"

C12_Witness ==
  /\ request.stage = "rejected"
  /\ request.exception.type = "UnauthorizedException"
  /\ request.exception.message = "Token has expired"

\* C13: when a device was issued token t1 and later, at a later time, token
\* t2, and that re-issuance is the latest service call, the map holds t2 for
\* the device and t1 is no longer the stored token; yet t1 is a different
\* token that verifyToken still accepts with the configured secret while it
\* has not expired, and a request presenting t1 before its exp is admitted
\* by the guard with t1's claims.
C13_SupersededTokenStillValid ==
  \A i1, i2 \in issued :
    (/\ i1.deviceId = i2.deviceId
     /\ i1.issuedAt < i2.issuedAt
     /\ last.op = "generateToken" /\ last.ok /\ last.value = i2) =>
      /\ i1.token # i2.token
      /\ AuthService_getStoredToken(deviceTokenMap, i1.deviceId) = i2.token
      /\ ~AuthService_isValidStoredToken(deviceTokenMap, i1.deviceId, i1.token)
      /\ now < ClaimsOf(i1.token).exp =>
           /\ JwtUtils_verifyToken(i1.token, config.JWT_SECRET, now).ok
           /\ JwtUtils_verifyToken(i1.token, config.JWT_SECRET, now).payload
                = ClaimsOf(i1.token)
      /\ (/\ Guarded
          /\ request.authorization = BearerPrefix \o i1.token
          /\ request.guardedAt < ClaimsOf(i1.token).exp) =>
           /\ Admitted
           /\ request.jwtPayload = ClaimsOf(i1.token)

C13_Witness ==
  \E i1, i2 \in issued :
    /\ i1.deviceId = i2.deviceId
    /\ i1.issuedAt < i2.issuedAt
    /\ last.op = "generateToken" /\ last.ok /\ last.value = i2
    /\ AuthService_getStoredToken(deviceTokenMap, i1.deviceId) = i2.token
    /\ Admitted
    /\ request.authorization = BearerPrefix \o i1.token
    /\ request.guardedAt >= i2.issuedAt

\* ------------------------------------------------------------------------
\* The header and format helpers of JwtUtils used on their own (as
\* jwt.utils.spec.ts does): one string is drawn, then handed to
\* extractTokenFromHeader or to isValidTokenFormat.

Seqs(A, n) == UNION {[1..k -> A] : k \in 0..n}

RECURSIVE join(_, _)
join(segments, sep) ==
  IF Len(segments) = 0 THEN <<>>
  ELSE IF Len(segments) = 1 THEN segments[1]
  ELSE segments[1] \o <<sep>> \o join(Tail(segments), sep)

HeaderPrefixes ==
  {<<>>, Str(<<"B", "e", "a", "r", "e", "r">>),
   Str(<<"b", "E", "A", "R", "E", "R">>), Str(<<"B", "a", "s", "i", "c">>)}
FreeAlphabet == {Ch(" "), Ch("\n"), Ch("a"), Ch(".")}
HeaderStrings ==
  {p \o f : p \in HeaderPrefixes, f \in Seqs(FreeAlphabet, MaxFreeLen)}

SegmentValues == {<<>>, Str(<<"a">>), Str(<<"a", "b">>)}
TokenStrings ==
  {join(segments, Dot) :
     segments \in UNION {[1..k -> SegmentValues] : k \in 1..MaxSegments}}

UtilInputs == HeaderStrings \cup TokenStrings \cup {undefined, null}

UtilsInit ==
  /\ now = 1
  /\ config = [JWT_SECRET |-> undefined, JWT_EXPIRES_IN |-> undefined]
  /\ deviceTokenMap = EmptyMap
  /\ last = NoCall
  /\ request = NoRequest
  /\ issued = {}
  /\ lastIssued = EmptyMap
  /\ codec \in {[phase |-> "input", input |-> x] : x \in UtilInputs}
  /\ tasks = NoTasks
  /\ userRepository = {}
  /\ projectRepository = {}

\* JwtUtils.extractTokenFromHeader(authHeader)
ExtractTokenFromHeader ==
  /\ codec.phase = "input"
  /\ codec' = [phase |-> "extracted", input |-> codec.input,
               token |-> JwtUtils_extractTokenFromHeader(codec.input)]
  /\ UNCHANGED <<now, config, deviceTokenMap, last, request, issued, lastIssued,
                 tasks, userRepository, projectRepository>>

\* JwtUtils.isValidTokenFormat(token)
IsValidTokenFormat ==
  /\ codec.phase = "input"
  /\ codec' = [phase |-> "checked", input |-> codec.input,
               valid |-> JwtUtils_isValidTokenFormat(codec.input)]
  /\ UNCHANGED <<now, config, deviceTokenMap, last, request, issued, lastIssued,
                 tasks, userRepository, projectRepository>>

UtilsNext == ExtractTokenFromHeader \/ IsValidTokenFormat

UtilsSpec == UtilsInit /\ [][UtilsNext]_vars

\* ------------------------------------------------------------------------
\* Properties of the header and format helpers (UtilsSpec)

IsString(x) == \A i \in 1..Len(x) : "ch" \in DOMAIN x[i]
\* no header, an empty one, or nothing but whitespace
AbsentHeader(h) == h \in {undefined, null} \/ trim(h) = <<>>
\* h is "Bearer" in any letter case, whitespace, then t: a non-empty rest
\* of the line
BearerForm(h, t) ==
  /\ Len(h) >= 8
  /\ lower(SubSeq(h, 1, 6)) = Str(<<"b", "e", "a", "r", "e", "r">>)
  /\ \E k \in 7..(Len(h) - 1) :
       /\ \A i \in 7..k : h[i] \in WhiteSpace
       /\ t = SubSeq(h, k + 1, Len(h))
       /\ \A i \in 1..Len(t) : t[i] \notin LineTerminators
HasBearerForm(h) == \E k \in 1..Len(h) : BearerForm(h, SubSeq(h, k, Len(h)))

\* C14: extractTokenFromHeader returns null exactly for an undefined, empty
\* or whitespace-only header; for a header made of "Bearer" in any letter
\* case, whitespace and a token it returns the token, the prefix and all
\* the whitespace after it removed; for every other header it returns the
\* trimmed header; a returned token is always a non-empty string.
C14_ExtractFromHeader ==
  codec.phase = "extracted" =>
    LET h == codec.input
        t == codec.token
    IN  /\ (t = null) <=> AbsentHeader(h)
        /\ HasBearerForm(h) =>
             /\ BearerForm(h, t)
             /\ Len(t) = 1 \/ t[1] \notin WhiteSpace
        /\ (~HasBearerForm(h) /\ ~AbsentHeader(h)) => t = trim(h)
        /\ t # null => Len(t) > 0 /\ IsString(t)

C14_Witness ==
  /\ codec.phase = "extracted"
  /\ codec.input = Str(<<"b", "E", "A", "R", "E", "R", " ", "\n", "a">>)
  /\ codec.token = Str(<<"a">>)

DotsOf(x) == {i \in 1..Len(x) : x[i] = Dot}

\* C15: isValidTokenFormat(token) is true exactly when the token is a
\* present, non-empty string holding two dots that delimit three non-empty
\* segments (no dot first, last, or next to another dot); it is false for
\* null, undefined, the empty string, tokens of one, two, four or more
\* segments and tokens with an empty segment.
C15_IsValidFormat ==
  codec.phase = "checked" =>
    LET x == codec.input
    IN  codec.valid <=>
          /\ x \notin {undefined, null, <<>>}
          /\ Cardinality(DotsOf(x)) = 2
          /\ x[1] # Dot /\ x[Len(x)] # Dot
          /\ \A i \in DotsOf(x) : (i + 1) \notin DotsOf(x)

C15_Witness ==
  /\ codec.phase = "checked"
  /\ codec.input = Str(<<"a", ".", "a", "b", ".", "a">>)
  /\ codec.valid

\* ------------------------------------------------------------------------
\* Properties of the service and the guard (Spec), continued

\* C16: revokeToken(d) never fails; it removes the entry of d and nothing
\* else: afterwards getStoredToken(d) is null and every other key keeps its
\* token; when d has no entry the map is unchanged; and revoking d again
\* leaves the map a single revoke left.
C16_RevokeIdempotentLocal ==
  [][last'.op = "revokeToken" =>
       LET d == last'.deviceId
       IN  /\ last'.ok
           /\ DOMAIN deviceTokenMap' = DOMAIN deviceTokenMap \ {d}
           /\ \A k \in DOMAIN deviceTokenMap' :
                deviceTokenMap'[k] = deviceTokenMap[k]
           /\ AuthService_getStoredToken(deviceTokenMap', d) = null
           /\ d \notin DOMAIN deviceTokenMap => deviceTokenMap' = deviceTokenMap
           /\ AuthService_revokeToken(deviceTokenMap', d) = deviceTokenMap']_vars

C16_Witness ==
  /\ last.op = "revokeToken"
  /\ last.deviceId = D1
  /\ \E i \in issued : i.deviceId = D1
  /\ DOMAIN deviceTokenMap = {D2}

\* the tokens a caller may ask about: every token issued so far, a token
\* nobody issued, and the empty string
TokensAsked == TokensOf(issued) \cup {ForgedToken, <<>>}

\* C17: isValidStoredToken(d, token) is true exactly when the map holds for
\* d a token equal to the given one, that is the token of the latest
\* issuance for d that no revoke has followed; it is false for a device
\* never issued or revoked and for a superseded token.  It only reads the
\* map: its result is a boolean and the map is not part of it.
C17_IsCurrentToken ==
  \A d \in DeviceIdInputs \cup DOMAIN deviceTokenMap, t \in TokensAsked :
    LET answer == AuthService_isValidStoredToken(deviceTokenMap, d, t)
    IN  /\ answer \in BOOLEAN
        /\ answer <=> (d \in DOMAIN deviceTokenMap /\ deviceTokenMap[d] = t)
        /\ answer <=> (d \in DOMAIN lastIssued /\ lastIssued[d] = t)
        /\ d \notin DOMAIN lastIssued => ~answer

C17_Witness ==
  \E i1, i2 \in issued :
    /\ i1.deviceId = i2.deviceId
    /\ i1.token # i2.token
    /\ AuthService_isValidStoredToken(deviceTokenMap, i2.deviceId, i2.token)
    /\ ~AuthService_isValidStoredToken(deviceTokenMap, i1.deviceId, i1.token)

\* C18: the DeviceId decorator never fails: on a request that carries no
\* jwtPayload (not guarded yet, or rejected) it returns the empty string,
\* on an admitted request it returns the deviceId of the claims the guard
\* attached; the handler that uses it answers with that deviceId and leaves
\* the request's jwtPayload and authorization header as they were.
C18_CurrentDeviceIdTotal ==
  [][/\ request'.stage \in {"none", "guard", "rejected"} =>
          DeviceId(request') = <<>>
     /\ request'.stage \in {"handler", "responded"} =>
          /\ DeviceId(request') = request'.jwtPayload.deviceId
          /\ DeviceId(request') = ClaimsOf(
                JwtUtils_extractTokenFromHeader(request'.authorization)).deviceId
          /\ IsString(DeviceId(request'))
     /\ (request.stage = "handler" /\ request'.stage = "responded") =>
          /\ request'.jwtPayload = request.jwtPayload
          /\ request'.authorization = request.authorization
          /\ request'.route = "device-info" =>
               request'.response.deviceId = DeviceId(request)]_vars

C18_Witness ==
  /\ request.stage = "rejected"
  /\ PresentedToken = ForgedToken
  /\ DeviceId(request) = <<>>
  /\ issued # {}

\* C19: when JWT_EXPIRES_IN is absent or empty, a successful generateToken
\* reports expiresIn "1h" and its token carries exp = iat + 3600; and
\* JwtUtils.generateToken called without expiresIn signs a token with
\* exp = iat + 3600 as well.
C19_DefaultOneHour ==
  /\ Falsy(config.JWT_EXPIRES_IN) =>
       /\ \A i \in issued :
            /\ i.expiresIn = Str(<<"1", "h">>)
            /\ ClaimsOf(i.token).exp - ClaimsOf(i.token).iat = 3600
       /\ (last.op = "generateToken" /\ ~BlankDeviceId(last.deviceId)
           /\ ~SecretAbsent) => last.ok /\ last.value \in issued
  /\ LET e == JwtUtils_generateToken(D1, K1, undefined, now)
     IN  /\ e.ok
         /\ ClaimsOf(e.token).iat = now
         /\ ClaimsOf(e.token).exp - ClaimsOf(e.token).iat = 3600

C19_Witness ==
  /\ config.JWT_EXPIRES_IN = <<>>
  /\ last.op = "generateToken" /\ last.ok
  /\ last.value.issuedAt = 2
  /\ last.value.expiresIn = Str(<<"1", "h">>)
  /\ ClaimsOf(last.value.token).exp = 3602

\* ------------------------------------------------------------------------
\* Properties of JwtUtils on its own (CodecSpec), continued

\* C20: the token generateToken returned for a deviceId differs from the
\* token it returns for every other deviceId under the same secret, the
\* same expiresIn and at the same time, and the two tokens carry their own
\* deviceId.
C20_DistinctDevicesDistinctTokens ==
  (Encoded /\ codec.encoded.ok) =>
    \A d2 \in CodecDeviceIds \ {codec.deviceId} :
      LET other == JwtUtils_generateToken(d2, codec.secret, codec.expiresIn,
                                          codec.at)
      IN  /\ other.ok
          /\ other.token # codec.encoded.token
          /\ ClaimsOf(other.token).deviceId = d2
          /\ ClaimsOf(codec.encoded.token).deviceId = codec.deviceId

C20_Witness ==
  /\ codec.phase = "encoded"
  /\ codec.encoded.ok
  /\ codec.deviceId = D1
  /\ codec.secret = K1
  /\ JwtUtils_generateToken(D2, K1, codec.expiresIn, codec.at).token
       # codec.encoded.token

\* ------------------------------------------------------------------------
\* AuthService on the event loop, statement by statement.  Each client has
\* at most one call in flight; generateToken is followed through its
\* validation, its configuration reads, the encoding, the map write and
\* the return.  None of its statements awaits, so the event loop hands the
\* thread to another request only once the call has returned or thrown.

RunningIn(ts, c) == ts[c].pc \notin {"idle", "done"}

\* mutant: requests are dispatched while a call is still on the stack
CallStackEmpty_preemptive == TRUE
CallStackEmpty == \A c \in Clients : ~RunningIn(tasks, c)

StepDeviceIds == {<<>>, D1, Str(<<" ", "d", "1", " ">>), D2}
StepKeys == {D1, D2}

StepInit ==
  /\ now = 1
  /\ config \in [JWT_SECRET : {undefined, K1}, JWT_EXPIRES_IN : {undefined}]
  /\ deviceTokenMap = EmptyMap
  /\ last = NoCall
  /\ request = NoRequest
  /\ issued = {}
  /\ lastIssued = EmptyMap
  /\ codec = NoCodec
  /\ tasks = [c \in Clients |-> [pc |-> "idle", calls |-> 0]]
  /\ userRepository = {}
  /\ projectRepository = {}

StepFrame ==
  UNCHANGED <<config, last, request, issued, lastIssued, codec,
              userRepository, projectRepository>>

\* time passes between two turns of the event loop
StepTick ==
  /\ CallStackEmpty
  /\ now < MaxTime
  /\ now' = now + 1
  /\ UNCHANGED <<deviceTokenMap, tasks>>
  /\ StepFrame

\* a request for generateToken(deviceId) is dispatched
CallGenerateToken(c, deviceId) ==
  /\ CallStackEmpty
  /\ tasks[c].pc \in {"idle", "done"}
  /\ tasks[c].calls < MaxCalls
  /\ tasks' = [tasks EXCEPT ![c] =
                 [pc |-> "validate", op |-> "generateToken",
                  deviceId |-> deviceId, calls |-> tasks[c].calls + 1,
                  before |-> deviceTokenMap, at |-> now]]
  /\ UNCHANGED <<now, deviceTokenMap>>
  /\ StepFrame

Thrown(t, message) ==
  [pc |-> "done", op |-> t.op, deviceId |-> t.deviceId, calls |-> t.calls,
   before |-> t.before, at |-> t.at, ok |-> FALSE, error |-> message]

\* if (!deviceId || deviceId.trim().length === 0) throw
GenerateTokenValidate(c) ==
  /\ tasks[c].pc = "validate"
  /\ tasks' = [tasks EXCEPT ![c] =
                 IF Falsy(@.deviceId) \/ Len(trim(@.deviceId)) = 0
                 THEN Thrown(@, "Device ID is required")
                 ELSE [@ EXCEPT !.pc = "config"]]
  /\ UNCHANGED <<now, deviceTokenMap>>
  /\ StepFrame

\* the two configService.get calls and the check of the secret
GenerateTokenConfig(c) ==
  /\ tasks[c].pc = "config"
  /\ tasks' = [tasks EXCEPT ![c] =
                 IF Falsy(config.JWT_SECRET)
                 THEN Thrown(@, "JWT secret is not configured")
                 ELSE [@ EXCEPT !.pc = "encode"]
                        @@ [jwtSecret |-> config.JWT_SECRET,
                            expiresIn |-> OrElse(config.JWT_EXPIRES_IN,
                                                 DefaultExpiresIn)]]
  /\ UNCHANGED <<now, deviceTokenMap>>
  /\ StepFrame

\* const token = JwtUtils.generateToken(deviceId.trim(), jwtSecret, expiresIn)
GenerateTokenEncode(c) ==
  /\ tasks[c].pc = "encode"
  /\ \E signed \in {JwtUtils_generateToken(trim(tasks[c].deviceId),
                                            tasks[c].jwtSecret,
                                            tasks[c].expiresIn, now)} :
       tasks' = [tasks EXCEPT ![c] =
                  IF ~signed.ok THEN Thrown(@, signed.error)
                  ELSE [@ EXCEPT !.pc = "register"] @@ [token |-> signed.token]]
  /\ UNCHANGED <<now, deviceTokenMap>>
  /\ StepFrame

\* this.deviceTokenMap.set(deviceId.trim(), token)
GenerateTokenRegister(c) ==
  /\ tasks[c].pc = "register"
  /\ deviceTokenMap' = MapSet(deviceTokenMap, trim(tasks[c].deviceId),
                              tasks[c].token)
  /\ tasks' = [tasks EXCEPT ![c].pc = "respond"]
  /\ UNCHANGED now
  /\ StepFrame

\* return {token, deviceId, expiresIn, issuedAt}
GenerateTokenRespond(c) ==
  /\ tasks[c].pc = "respond"
  /\ tasks' = [tasks EXCEPT ![c] =
                 [pc |-> "done", op |-> @.op, deviceId |-> @.deviceId,
                  calls |-> @.calls, before |-> @.before, at |-> @.at,
                  ok |-> TRUE,
                  value |-> [token |-> @.token, deviceId |-> trim(@.deviceId),
                             expiresIn |-> @.expiresIn, issuedAt |-> now]]]
  /\ UNCHANGED <<now, deviceTokenMap>>
  /\ StepFrame

\* getStoredToken(deviceId): one statement
CallGetStoredToken(c, deviceId) ==
  /\ CallStackEmpty
  /\ tasks[c].pc \in {"idle", "done"}
  /\ tasks[c].calls < MaxCalls
  /\ tasks' = [tasks EXCEPT ![c] =
                 [pc |-> "done", op |-> "getStoredToken",
                  deviceId |-> deviceId, calls |-> tasks[c].calls + 1,
                  before |-> deviceTokenMap, at |-> now, ok |-> TRUE,
                  value |-> AuthService_getStoredToken(deviceTokenMap,
                                                       deviceId)]]
  /\ UNCHANGED <<now, deviceTokenMap>>
  /\ StepFrame

\* revokeToken(deviceId): one statement
CallRevokeToken(c, deviceId) ==
  /\ CallStackEmpty
  /\ tasks[c].pc \in {"idle", "done"}
  /\ tasks[c].calls < MaxCalls
  /\ deviceTokenMap' = AuthService_revokeToken(deviceTokenMap, deviceId)
  /\ tasks' = [tasks EXCEPT ![c] =
                 [pc |-> "done", op |-> "revokeToken",
                  deviceId |-> deviceId, calls |-> tasks[c].calls + 1,
                  before |-> deviceTokenMap, at |-> now, ok |-> TRUE,
                  value |-> undefined]]
  /\ UNCHANGED now
  /\ StepFrame

StepNext ==
  \/ StepTick
  \/ \E c \in Clients, d \in StepDeviceIds : CallGenerateToken(c, d)
  \/ \E c \in Clients : GenerateTokenValidate(c)
  \/ \E c \in Clients : GenerateTokenConfig(c)
  \/ \E c \in Clients : GenerateTokenEncode(c)
  \/ \E c \in Clients : GenerateTokenRegister(c)
  \/ \E c \in Clients : GenerateTokenRespond(c)
  \/ \E c \in Clients, d \in StepKeys : CallGetStoredToken(c, d)
  \/ \E c \in Clients, d \in StepKeys : CallRevokeToken(c, d)

StepSpec == StepInit /\ [][StepNext]_vars

\* ------------------------------------------------------------------------
\* Properties of AuthService on the event loop (StepSpec)

Completes(c) == RunningIn(tasks, c) /\ tasks'[c].pc = "done"

\* C21: at most one service call is on the stack at any time; while a call
\* runs no other client's call starts, ends or touches the map and the
\* clock does not move, so nothing happens between an issuance's encoding
\* and its map write; a generateToken call ends with exactly the result
\* and the map that the whole call applied at once to the map found at its
\* start gives, and the token it returns is the stored token of its device
\* when it returns; getStoredToken and revokeToken are single steps.
C21_OperationsAtomic ==
  [][/\ Cardinality({c \in Clients : RunningIn(tasks', c)}) <= 1
     /\ \A c \in Clients :
          RunningIn(tasks, c) =>
            /\ \A o \in Clients \ {c} : tasks'[o] = tasks[o]
            /\ now' = now
            /\ tasks'[c].before = tasks[c].before
            /\ deviceTokenMap' # deviceTokenMap =>
                 /\ tasks[c].pc = "register"
                 /\ deviceTokenMap = tasks[c].before
     /\ \A c \in Clients :
          (Completes(c) /\ tasks[c].op = "generateToken") =>
            LET r == AuthService_generateToken(tasks[c].before, config,
                                               tasks[c].deviceId, tasks[c].at)
            IN  /\ deviceTokenMap' = r.map
                /\ tasks'[c].ok = r.ok
                /\ ~r.ok => tasks'[c].error = r.error
                /\ r.ok =>
                     /\ tasks'[c].value = r.value
                     /\ AuthService_getStoredToken(deviceTokenMap',
                                                   r.value.deviceId)
                          = r.value.token
     /\ \A c \in Clients :
          (tasks'[c] # tasks[c] /\ tasks'[c].op = "getStoredToken") =>
            /\ deviceTokenMap' = deviceTokenMap
            /\ tasks'[c].value
                 = AuthService_getStoredToken(deviceTokenMap, tasks'[c].deviceId)
     /\ \A c \in Clients :
          (tasks'[c] # tasks[c] /\ tasks'[c].op = "revokeToken") =>
            deviceTokenMap'
              = AuthService_revokeToken(deviceTokenMap, tasks'[c].deviceId)]_vars

C21_Witness ==
  /\ tasks["c1"].pc = "done" /\ tasks["c1"].op = "generateToken"
  /\ tasks["c1"].ok /\ tasks["c1"].deviceId = D1
  /\ tasks["c2"].pc = "done" /\ tasks["c2"].op = "generateToken"
  /\ tasks["c2"].ok /\ tasks["c2"].deviceId = Str(<<" ", "d", "1", " ">>)
  /\ tasks["c1"].at < tasks["c2"].at
  /\ deviceTokenMap[D1] = tasks["c2"].value.token

\* ---------------------------------------------------------------------------
\* UsersService on the users table.  Every method is async: it runs up to its
\* next await, and the awaited repository or bcrypt call completes in a later
\* turn of the event loop, so calls of different requests interleave at the
\* awaits.  A row is [id, email]; a task remembers what the call holds in
\* its local variables.
\* ---------------------------------------------------------------------------
Emails == {"a@x", "b@x"}

UserIds == 1 .. 8

NoEmail == "undefined"

NoUser == [id |-> 0, email |-> NoEmail]

\* userRepository.findOne({ where: { email } })
userRepository_findOneByEmail(repo, email) ==
  IF \E u \in repo : u.email = email
    THEN CHOOSE u \in repo : u.email = email
    ELSE NoUser

\* userRepository.findOne({ where: { id } })
userRepository_findOneById(repo, id) ==
  IF \E u \in repo : u.id = id
    THEN CHOOSE u \in repo : u.id = id
    ELSE NoUser

\* @PrimaryGeneratedColumn('uuid'): an id no row has
NewUserId(repo) == CHOOSE i \in UserIds : \A u \in repo : u.id < i /\ (i = 1 \/ \E v \in repo : v.id = i - 1)

\* the table without UQ_users_email
userRepository_save_noUniqueConstraint(repo, user) ==
  IF \E u \in repo : u.id = user.id
    THEN [ok |-> TRUE, repo |-> {u \in repo : u.id # user.id} \cup {user}]
    ELSE [ok |-> TRUE,
          repo |-> repo \cup {[id |-> NewUserId(repo), email |-> user.email]}]

\* userRepository.save(user): UPDATE of the row with the entity's id when there
\* is one, INSERT otherwise; the unique constraint on email rejects the
\* statement (QueryFailedError) when another row has that email.
userRepository_save(repo, user) ==
  IF \E u \in repo : u.id # user.id /\ u.email = user.email
    THEN [ok |-> FALSE, repo |-> repo]
    ELSE IF \E u \in repo : u.id = user.id
      THEN [ok |-> TRUE, repo |-> {u \in repo : u.id # user.id} \cup {user}]
      ELSE [ok |-> TRUE,
            repo |-> repo \cup {[id |-> NewUserId(repo), email |-> user.email]}]

UserIdle == [pc |-> "idle", op |-> "none", calls |-> 0, id |-> 0,
             email |-> NoEmail, password |-> FALSE, user |-> NoUser,
             outcome |-> "none", found |-> FALSE, stored |-> FALSE]

UsersInit ==
  /\ now = 1
  /\ config = [JWT_SECRET |-> K1, JWT_EXPIRES_IN |-> undefined]
  /\ deviceTokenMap = EmptyMap
  /\ last = NoCall
  /\ request = NoRequest
  /\ issued = {}
  /\ lastIssued = EmptyMap
  /\ codec = NoCodec
  /\ tasks = [c \in Clients |-> UserIdle]
  /\ userRepository = {}
  /\ projectRepository = {}

UsersFrame ==
  UNCHANGED <<now, config, deviceTokenMap, last, request, issued, lastIssued,
              codec, projectRepository>>

Settled(t, outcome) == [t EXCEPT !.pc = "done", !.outcome = outcome]

\* create(userData) is called: runs to the first await (findOne by email)
CallCreate(c, email) ==
  /\ tasks[c].pc \in {"idle", "done"}
  /\ tasks[c].calls < MaxCalls
  /\ tasks' = [tasks EXCEPT ![c] =
       [UserIdle EXCEPT !.pc = "create_findOne", !.op = "create",
                        !.calls = tasks[c].calls + 1, !.email = email]]
  /\ UNCHANGED userRepository
  /\ UsersFrame

\* the lookup resolves: ConflictException, or on to await hash(...)
CreateFindOne(c) ==
  /\ tasks[c].pc = "create_findOne"
  /\ \E existingUser \in {userRepository_findOneByEmail(userRepository, tasks[c].email)} :
       tasks' = [tasks EXCEPT ![c] =
         IF existingUser # NoUser
           THEN [Settled(@, "ConflictException") EXCEPT !.found = TRUE]
           ELSE [@ EXCEPT !.pc = "create_hash"]]
  /\ UNCHANGED userRepository
  /\ UsersFrame

\* hash resolves: userRepository.create(...) and await save(user)
CreateHash(c) ==
  /\ tasks[c].pc = "create_hash"
  /\ tasks' = [tasks EXCEPT ![c] =
       [@ EXCEPT !.pc = "create_save",
                 !.user = [id |-> 0, email |-> tasks[c].email]]]
  /\ UNCHANGED userRepository
  /\ UsersFrame

\* save resolves or rejects
CreateSave(c) ==
  /\ tasks[c].pc = "create_save"
  /\ \E r \in {userRepository_save(userRepository, tasks[c].user)} :
       /\ userRepository' = r.repo
       /\ tasks' = [tasks EXCEPT ![c] =
            IF r.ok THEN [Settled(@, "ok") EXCEPT !.stored = TRUE]
                    ELSE Settled(@, "QueryFailedError")]
  /\ UsersFrame

\* update(id, updateData) is called: runs to await findById(id)
CallUpdate(c, id, email, password) ==
  /\ tasks[c].pc \in {"idle", "done"}
  /\ tasks[c].calls < MaxCalls
  /\ tasks' = [tasks EXCEPT ![c] =
       [UserIdle EXCEPT !.pc = "update_findById", !.op = "update",
                        !.calls = tasks[c].calls + 1, !.id = id,
                        !.email = email, !.password = password]]
  /\ UNCHANGED userRepository
  /\ UsersFrame

\* where update goes once the password is dealt with
AfterPassword(t) ==
  IF t.email # NoEmail /\ t.email # t.user.email
    THEN [t EXCEPT !.pc = "update_findOne"]
    ELSE [t EXCEPT !.pc = "update_save"]

\* findById resolves: NotFoundException, or on with the loaded entity
UpdateFindById(c) ==
  /\ tasks[c].pc = "update_findById"
  /\ \E user \in {userRepository_findOneById(userRepository, tasks[c].id)} :
       tasks' = [tasks EXCEPT ![c] =
         IF user = NoUser
           THEN Settled(@, "NotFoundException")
           ELSE IF tasks[c].password
             THEN [@ EXCEPT !.pc = "update_hash", !.user = user]
             ELSE AfterPassword([@ EXCEPT !.user = user])]
  /\ UNCHANGED userRepository
  /\ UsersFrame

UpdateHash(c) ==
  /\ tasks[c].pc = "update_hash"
  /\ tasks' = [tasks EXCEPT ![c] = AfterPassword(@)]
  /\ UNCHANGED userRepository
  /\ UsersFrame

\* the uniqueness lookup resolves
UpdateFindOne(c) ==
  /\ tasks[c].pc = "update_findOne"
  /\ \E existingUser \in {userRepository_findOneByEmail(userRepository, tasks[c].email)} :
       tasks' = [tasks EXCEPT ![c] =
         IF existingUser # NoUser
           THEN [Settled(@, "ConflictException") EXCEPT !.found = TRUE]
           ELSE [@ EXCEPT !.pc = "update_save"]]
  /\ UNCHANGED userRepository
  /\ UsersFrame

\* Object.assign(user, updateData); save(user) resolves or rejects
UpdateSave(c) ==
  /\ tasks[c].pc = "update_save"
  /\ \E user \in {[tasks[c].user EXCEPT !.email =
                     IF tasks[c].email # NoEmail THEN tasks[c].email ELSE @]} :
     \E r \in {userRepository_save(userRepository, user)} :
       /\ userRepository' = r.repo
       /\ tasks' = [tasks EXCEPT ![c] =
            IF r.ok THEN [Settled(@, "ok") EXCEPT !.stored = TRUE, !.user = user]
                    ELSE Settled(@, "QueryFailedError")]
  /\ UsersFrame

UsersNext ==
  \/ \E c \in Clients, email \in Emails : CallCreate(c, email)
  \/ \E c \in Clients : CreateFindOne(c)
  \/ \E c \in Clients : CreateHash(c)
  \/ \E c \in Clients : CreateSave(c)
  \/ \E c \in Clients, id \in {1, 2}, email \in Emails \cup {NoEmail},
        password \in BOOLEAN : CallUpdate(c, id, email, password)
  \/ \E c \in Clients : UpdateFindById(c)
  \/ \E c \in Clients : UpdateHash(c)
  \/ \E c \in Clients : UpdateFindOne(c)
  \/ \E c \in Clients : UpdateSave(c)

UsersSpec == UsersInit /\ [][UsersNext]_vars

\* no two rows share an email or an id, and what a finished create reports
EmailsUnique ==
  /\ \A u \in userRepository, v \in userRepository :
       u.email = v.email => u = v
  /\ \A u \in userRepository, v \in userRepository : u.id = v.id => u = v
  /\ \A c \in Clients :
       (tasks[c].op = "create" /\ tasks[c].pc = "done") =>
         /\ tasks[c].found => tasks[c].outcome = "ConflictException"
         /\ tasks[c].outcome # "ok" => ~tasks[c].stored
         /\ tasks[c].outcome \in {"ok", "ConflictException", "QueryFailedError"}

\* C22: no two stored users ever have the same email, whatever the
\* interleaving of create and update calls at their awaits; the lookup of a
\* create that finds a user with its email throws ConflictException and
\* stores nothing; and every failing create or update leaves the stored
\* users unchanged.
C22_UniqueEmails ==
  /\ []EmailsUnique
  /\ [][\A c \in Clients :
       /\ (tasks[c].pc = "create_findOne"
           /\ tasks'[c].pc = "done"
           /\ \E u \in userRepository : u.email = tasks[c].email)
          => /\ tasks'[c].outcome = "ConflictException"
             /\ userRepository' = userRepository
       /\ (tasks[c].pc = "create_findOne"
           /\ tasks'[c] # tasks[c]
           /\ \E u \in userRepository : u.email = tasks[c].email)
          => tasks'[c].pc = "done"
       /\ (tasks[c].pc # "done" /\ tasks'[c].pc = "done"
           /\ tasks'[c].outcome # "ok")
          => userRepository' = userRepository]_vars

\* two creates of one email raced past their lookups: one stored the user, the
\* other was rejected by the table; a later create of that email met the
\* stored user and ended with a conflict
C22_Witness ==
  /\ tasks["c1"].op = "create" /\ tasks["c1"].pc = "done"
  /\ tasks["c1"].outcome = "ConflictException" /\ tasks["c1"].email = "a@x"
  /\ tasks["c2"].op = "create" /\ tasks["c2"].pc = "done"
  /\ tasks["c2"].outcome = "QueryFailedError" /\ tasks["c2"].email = "a@x"
  /\ Cardinality(userRepository) = 1

\* ---------------------------------------------------------------------------
\* ProjectsService on the projects table.  A row is [id, startDate, endDate,
\* deleted]; dates are day numbers, NoDate is an absent date (undefined in a
\* DTO, NULL in the column); deleted is "deletedAt is set".  The table has no
\* constraint on the dates and Project.validateDateRange() is called nowhere.
\* Calls of different requests interleave at the awaits.
\* ---------------------------------------------------------------------------
MaxDate == 3

MaxProjects == 1

NoDate == 0

Dates == 1 .. MaxDate

ProjectIds == 1 .. 2

NoProject == [id |-> 0, startDate |-> NoDate, endDate |-> NoDate, deleted |-> FALSE]

\* projectRepository.findOne({ where: { id } }): soft-deleted rows are not found
projectRepository_findOne(repo, id) ==
  IF \E p \in repo : p.id = id /\ ~p.deleted
    THEN CHOOSE p \in repo : p.id = id /\ ~p.deleted
    ELSE NoProject

\* projectRepository.save(project) of a new entity
projectRepository_save(repo, project) ==
  repo \cup {[project EXCEPT !.id = Cardinality(repo) + 1]}

\* projectRepository.update(id, updateData): only the supplied columns
projectRepository_update(repo, id, updateData) ==
  {IF p.id = id
     THEN [p EXCEPT !.startDate = IF updateData.startDate # NoDate
                                    THEN updateData.startDate ELSE @,
                    !.endDate = IF updateData.endDate # NoDate
                                  THEN updateData.endDate ELSE @]
     ELSE p : p \in repo}

\* projectRepository.softDelete(id)
projectRepository_softDelete(repo, id) ==
  {IF p.id = id /\ ~p.deleted THEN [p EXCEPT !.deleted = TRUE] ELSE p : p \in repo}

\* projectRepository.restore(id): no row with that id is not an error
projectRepository_restore(repo, id) ==
  {IF p.id = id THEN [p EXCEPT !.deleted = FALSE] ELSE p : p \in repo}

\* update, lines 164-171: a date the DTO leaves out is taken from the row read
DateRangeInvalid(startDate, endDate, existingProject) ==
  \E s \in {IF startDate # NoDate THEN startDate ELSE existingProject.startDate} :
  \E e \in {IF endDate # NoDate THEN endDate ELSE existingProject.endDate} :
    e # NoDate /\ s # NoDate /\ e <= s

\* restore, lines 255-261: whatever was thrown becomes a BadRequestException
restore_catch(error) ==
  [type |-> "BadRequestException", message |-> "Failed to restore project"]

NotFound == [type |-> "NotFoundException", message |-> "Project with ID not found"]

EndBeforeStart ==
  [type |-> "BadRequestException", message |-> "End date must be after start date"]

Returned == [type |-> "none", message |-> "ok"]

Pending == [type |-> "none", message |-> "pending"]

ProjectIdle == [pc |-> "idle", op |-> "none", calls |-> 0, id |-> 0,
                startDate |-> NoDate, endDate |-> NoDate,
                outcome |-> Pending, wrote |-> FALSE, missing |-> FALSE]

ProjectsInit ==
  /\ now = 1
  /\ config = [JWT_SECRET |-> K1, JWT_EXPIRES_IN |-> undefined]
  /\ deviceTokenMap = EmptyMap
  /\ last = NoCall
  /\ request = NoRequest
  /\ issued = {}
  /\ lastIssued = EmptyMap
  /\ codec = NoCodec
  /\ tasks = [c \in Clients |-> ProjectIdle]
  /\ userRepository = {}
  /\ projectRepository = {}

ProjectsFrame ==
  UNCHANGED <<now, config, deviceTokenMap, last, request, issued, lastIssued,
              codec, userRepository>>

\* the call settles; its arguments and locals are gone with its frame
Finished(t, outcome) ==
  [t EXCEPT !.pc = "done", !.outcome = outcome, !.id = 0,
            !.startDate = NoDate, !.endDate = NoDate]

Called(c, op, id, startDate, endDate) ==
  [ProjectIdle EXCEPT !.op = op, !.calls = tasks[c].calls + 1, !.id = id,
                      !.startDate = startDate, !.endDate = endDate]

CanCall(c) == tasks[c].pc \in {"idle", "done"} /\ tasks[c].calls < MaxCalls

\* create(dto): the date check runs before the first await
ProjectsCreate(c, startDate, endDate) ==
  /\ CanCall(c)
  /\ Cardinality(projectRepository) < MaxProjects
  /\ tasks' = [tasks EXCEPT ![c] =
       IF endDate # NoDate /\ startDate # NoDate /\ endDate <= startDate
         THEN Finished(Called(c, "create", 0, startDate, endDate), EndBeforeStart)
         ELSE [Called(c, "create", 0, startDate, endDate) EXCEPT !.pc = "create_save"]]
  /\ UNCHANGED projectRepository
  /\ ProjectsFrame

ProjectsCreateSave(c) ==
  /\ tasks[c].pc = "create_save"
  /\ projectRepository' = projectRepository_save(projectRepository,
       [id |-> 0, startDate |-> tasks[c].startDate,
        endDate |-> tasks[c].endDate, deleted |-> FALSE])
  /\ tasks' = [tasks EXCEPT ![c] = [Finished(@, Returned) EXCEPT !.wrote = TRUE]]
  /\ ProjectsFrame

\* findOne(id) called on its own
ProjectsFindOne(c, id) ==
  /\ CanCall(c)
  /\ tasks' = [tasks EXCEPT ![c] =
       [Called(c, "findOne", id, NoDate, NoDate) EXCEPT !.pc = "findOne_findOne"]]
  /\ UNCHANGED projectRepository
  /\ ProjectsFrame

ProjectsFindOneResolved(c) ==
  /\ tasks[c].pc = "findOne_findOne"
  /\ \E project \in {projectRepository_findOne(projectRepository, tasks[c].id)} :
       tasks' = [tasks EXCEPT ![c] =
         IF project = NoProject
           THEN [Finished(@, NotFound) EXCEPT !.missing = TRUE]
           ELSE Finished(@, Returned)]
  /\ UNCHANGED projectRepository
  /\ ProjectsFrame

\* update(id, dto): up to await this.findOne(id)
ProjectsUpdate(c, id, startDate, endDate) ==
  /\ CanCall(c)
  /\ tasks' = [tasks EXCEPT ![c] =
       [Called(c, "update", id, startDate, endDate) EXCEPT !.pc = "update_findOne"]]
  /\ UNCHANGED projectRepository
  /\ ProjectsFrame

\* findOne resolved: not found, or the date check against the row just read,
\* then await projectRepository.update(id, updateData)
ProjectsUpdateFindOne(c) ==
  /\ tasks[c].pc = "update_findOne"
  /\ \E existingProject \in {projectRepository_findOne(projectRepository, tasks[c].id)} :
       tasks' = [tasks EXCEPT ![c] =
         IF existingProject = NoProject
           THEN [Finished(@, NotFound) EXCEPT !.missing = TRUE]
           ELSE IF DateRangeInvalid(tasks[c].startDate, tasks[c].endDate, existingProject)
             THEN Finished(@, EndBeforeStart)
             ELSE [@ EXCEPT !.pc = "update_update"]]
  /\ UNCHANGED projectRepository
  /\ ProjectsFrame

ProjectsUpdateUpdate(c) ==
  /\ tasks[c].pc = "update_update"
  /\ projectRepository' = projectRepository_update(projectRepository, tasks[c].id,
       [startDate |-> tasks[c].startDate, endDate |-> tasks[c].endDate])
  /\ tasks' = [tasks EXCEPT ![c] = [@ EXCEPT !.pc = "update_refetch", !.wrote = TRUE]]
  /\ ProjectsFrame

ProjectsUpdateRefetch(c) ==
  /\ tasks[c].pc = "update_refetch"
  /\ \E updatedProject \in {projectRepository_findOne(projectRepository, tasks[c].id)} :
       tasks' = [tasks EXCEPT ![c] =
         IF updatedProject = NoProject THEN Finished(@, NotFound)
                                       ELSE Finished(@, Returned)]
  /\ UNCHANGED projectRepository
  /\ ProjectsFrame

\* remove(id): await this.findOne(id), then await softDelete(id)
ProjectsRemove(c, id) ==
  /\ CanCall(c)
  /\ tasks' = [tasks EXCEPT ![c] =
       [Called(c, "remove", id, NoDate, NoDate) EXCEPT !.pc = "remove_findOne"]]
  /\ UNCHANGED projectRepository
  /\ ProjectsFrame

ProjectsRemoveFindOne(c) ==
  /\ tasks[c].pc = "remove_findOne"
  /\ \E project \in {projectRepository_findOne(projectRepository, tasks[c].id)} :
       tasks' = [tasks EXCEPT ![c] =
         IF project = NoProject
           THEN [Finished(@, NotFound) EXCEPT !.missing = TRUE]
           ELSE [@ EXCEPT !.pc = "remove_softDelete"]]
  /\ UNCHANGED projectRepository
  /\ ProjectsFrame

ProjectsRemoveSoftDelete(c) ==
  /\ tasks[c].pc = "remove_softDelete"
  /\ projectRepository' = projectRepository_softDelete(projectRepository, tasks[c].id)
  /\ tasks' = [tasks EXCEPT ![c] = [Finished(@, Returned) EXCEPT !.wrote = TRUE]]
  /\ ProjectsFrame

\* restore(id): up to await projectRepository.restore(id)
ProjectsRestore(c, id) ==
  /\ CanCall(c)
  /\ tasks' = [tasks EXCEPT ![c] =
       [Called(c, "restore", id, NoDate, NoDate) EXCEPT !.pc = "restore_restore"]]
  /\ UNCHANGED projectRepository
  /\ ProjectsFrame

ProjectsRestoreRestore(c) ==
  /\ tasks[c].pc = "restore_restore"
  /\ projectRepository' = projectRepository_restore(projectRepository, tasks[c].id)
  /\ tasks' = [tasks EXCEPT ![c] =
       [@ EXCEPT !.pc = "restore_findOne",
                 !.wrote = (projectRepository' # projectRepository)]]
  /\ ProjectsFrame

\* findOne inside restore's try: its NotFoundException lands in the catch
ProjectsRestoreFindOne(c) ==
  /\ tasks[c].pc = "restore_findOne"
  /\ \E restoredProject \in {projectRepository_findOne(projectRepository, tasks[c].id)} :
       tasks' = [tasks EXCEPT ![c] =
         IF restoredProject = NoProject
           THEN [Finished(@, restore_catch(NotFound)) EXCEPT
                   !.missing = (\A p \in projectRepository : p.id # tasks[c].id)]
           ELSE Finished(@, Returned)]
  /\ UNCHANGED projectRepository
  /\ ProjectsFrame

ProjectsNext ==
  \/ \E c \in Clients, startDate \in Dates, endDate \in Dates \cup {NoDate} :
       ProjectsCreate(c, startDate, endDate)
  \/ \E c \in Clients : ProjectsCreateSave(c)
  \/ \E c \in Clients, id \in ProjectIds : ProjectsFindOne(c, id)
  \/ \E c \in Clients : ProjectsFindOneResolved(c)
  \/ \E c \in Clients, id \in ProjectIds, startDate \in Dates \cup {NoDate},
        endDate \in Dates \cup {NoDate} : ProjectsUpdate(c, id, startDate, endDate)
  \/ \E c \in Clients : ProjectsUpdateFindOne(c)
  \/ \E c \in Clients : ProjectsUpdateUpdate(c)
  \/ \E c \in Clients : ProjectsUpdateRefetch(c)
  \/ \E c \in Clients, id \in ProjectIds : ProjectsRemove(c, id)
  \/ \E c \in Clients : ProjectsRemoveFindOne(c)
  \/ \E c \in Clients : ProjectsRemoveSoftDelete(c)
  \/ \E c \in Clients, id \in ProjectIds : ProjectsRestore(c, id)
  \/ \E c \in Clients : ProjectsRestoreRestore(c)
  \/ \E c \in Clients : ProjectsRestoreFindOne(c)

ProjectsSpec == ProjectsInit /\ [][ProjectsNext]_vars

C24_AsStated ==
  \A c \in Clients :
    (tasks[c].pc = "done" /\ tasks[c].missing) =>
      /\ tasks[c].outcome.type = "NotFoundException"
      /\ tasks[c].op = "restore" => ~tasks[c].wrote

\* C25: the guard makes its checks in the order extract, format, secret,
\* verify and stops at the first that fails: a request without a token is
\* rejected with 'No authorization token provided' after the extraction
\* alone, and a token that is not three non-empty segments with 'Invalid
\* token format' after extraction and format check, the secret not read and
\* verifyToken not called, also when JWT_SECRET is absent; 'JWT
\* configuration error' is reported only for a three-segment token, verify
\* not called; verifyToken is called only when the three checks before it passed.
C25_ChecksInOrder ==
  Guarded =>
    /\ \E n \in 1 .. 4 :
         request.checks = SubSeq(<<"extract", "format", "secret", "verify">>, 1, n)
    /\ Falsy(PresentedToken) <=> request.checks = <<"extract">>
    /\ Falsy(PresentedToken) =>
         /\ request.stage = "rejected"
         /\ request.exception.message = "No authorization token provided"
    /\ (~Falsy(PresentedToken) /\ ~JwtUtils_isValidTokenFormat(PresentedToken)) <=>
         request.checks = <<"extract", "format">>
    /\ request.checks = <<"extract", "format">> =>
         /\ request.stage = "rejected"
         /\ request.exception.message = "Invalid token format"
    /\ request.checks = <<"extract", "format", "secret">> <=>
         (request.stage = "rejected"
          /\ request.exception.message = "JWT configuration error")
    /\ request.checks = <<"extract", "format", "secret">> =>
         /\ SecretAbsent
         /\ ~Falsy(PresentedToken)
         /\ JwtUtils_isValidTokenFormat(PresentedToken)
    /\ Len(request.checks) = 4 =>
         /\ ~SecretAbsent
         /\ JwtUtils_isValidTokenFormat(PresentedToken)
         /\ request.stage = "rejected" =>
              request.exception.message \in {"Token has expired", "Invalid token"}

\* the secret is absent and a malformed token was rejected as malformed
C25_Witness ==
  /\ SecretAbsent
  /\ request.stage = "rejected"
  /\ ~Falsy(PresentedToken)
  /\ request.exception.message = "Invalid token format"
  /\ request.checks = <<"extract", "format">>

\* the header's token passes at time clock: a function of the header, the
\* secret and the clock, and of nothing else
PassesAt(header, secret, clock) ==
  LET token == JwtUtils_extractTokenFromHeader(header)
  IN  /\ ~Falsy(token)
      /\ JwtUtils_isValidTokenFormat(token)
      /\ ~Falsy(secret)
      /\ jwt_verify(token, secret, clock).ok

\* C26: whether the guard admits a request, and the claims it attaches, are
\* determined by the authorization header, JWT_SECRET and the time of the
\* check alone: whatever deviceTokenMap holds and whatever was issued or
\* revoked before, a request whose token verifies is admitted with that
\* token's claims, so a revoked or superseded token that has not expired
\* still passes; the guard's step leaves deviceTokenMap and the record of
\* service calls unchanged, and issuing and revoking leave a request untouched.
C26_GateIgnoresRegistry ==
  [][/\ (request.stage = "guard" /\ request'.stage # "guard") =>
          /\ request'.stage = IF PassesAt(request.authorization, config.JWT_SECRET, now)
                              THEN "handler" ELSE "rejected"
          /\ request'.jwtPayload =
               IF PassesAt(request.authorization, config.JWT_SECRET, now)
               THEN ClaimsOf(JwtUtils_extractTokenFromHeader(request.authorization))
               ELSE noPayload
          /\ request'.authorization = request.authorization
          /\ deviceTokenMap' = deviceTokenMap
          /\ last' = last
          /\ issued' = issued
     /\ (deviceTokenMap' # deviceTokenMap \/ last' # last) => request' = request
    ]_vars

\* a token of d1 was admitted although d1 has no entry in the map: the
\* token had been revoked
C26_Witness ==
  /\ request.stage = "handler"
  /\ PresentedToken \in TokensOf(issued)
  /\ ClaimsOf(PresentedToken).deviceId = D1
  /\ last.op = "revokeToken" /\ last.deviceId = D1
  /\ D1 \notin DOMAIN deviceTokenMap
  /\ request.jwtPayload.deviceId = D1

\* C27: every key of deviceTokenMap is a trimmed, non-empty deviceId and the
\* token stored under it carries exactly that key as its deviceId claim;
\* getStoredToken, revokeToken and isValidStoredToken use their argument as
\* the key without trimming it, so for a deviceId d with surrounding
\* whitespace getStoredToken(d) is null, isValidStoredToken(d, t) is false
\* and revokeToken(d) removes nothing, also right after a successful
\* generateToken(d), whose token is stored under trim(d).
C27_KeysTrimmed ==
  /\ \A k \in DOMAIN deviceTokenMap :
       /\ k = trim(k)
       /\ ~Falsy(k)
       /\ ClaimsOf(deviceTokenMap[k]).deviceId = k
  /\ \A d \in DeviceIdInputs :
       d # trim(d) =>
         /\ AuthService_getStoredToken(deviceTokenMap, d) = null
         /\ AuthService_revokeToken(deviceTokenMap, d) = deviceTokenMap
         /\ \A i \in issued :
              ~AuthService_isValidStoredToken(deviceTokenMap, d, i.token)
  /\ (last.op = "generateToken" /\ last.ok) =>
       /\ AuthService_getStoredToken(deviceTokenMap, trim(last.deviceId))
            = last.value.token
       /\ last.deviceId # trim(last.deviceId) =>
            AuthService_getStoredToken(deviceTokenMap, last.deviceId) = null

\* generateToken(' d1 ') has just succeeded and its token is stored under 'd1'
C27_Witness ==
  /\ last.op = "generateToken" /\ last.ok
  /\ last.deviceId = Str(<<" ", "d", "1", " ">>)
  /\ DOMAIN deviceTokenMap = {D1}
  /\ deviceTokenMap[D1] = last.value.token

\* ---------------------------------------------------------------------------
\* AuthController.getToken: POST /auth/token.  The handler is synchronous, so
\* one request is one step.
\* ---------------------------------------------------------------------------

\* a handler that lets the service's configuration failure through as it is
getToken_configErrorEscapes(result) ==
  IF result.ok
    THEN [ok |-> TRUE, map |-> result.map,
          response |-> [success |-> TRUE, data |-> result.value]]
    ELSE [ok |-> FALSE, map |-> result.map,
          exception |->
            [type |-> IF result.error = "JWT secret is not configured"
                      THEN "Error" ELSE "BadRequestException",
             message |-> result.error]]

\* getToken(getTokenDto), given how authService.generateToken ended: the
\* response body, or the exception thrown
getToken(result) ==
  IF result.ok
    THEN [ok |-> TRUE, map |-> result.map,
          response |-> [success |-> TRUE, data |-> result.value]]
    ELSE [ok |-> FALSE, map |-> result.map,
          exception |-> [type |-> "BadRequestException",
                         message |-> result.error]]

NoResponse == [success |-> FALSE]

NoException == [type |-> "none", message |-> ""]

PostToken(deviceId) ==
  \E getTokenDto \in {[deviceId |-> deviceId]} :
  \E result \in {AuthService_generateToken(deviceTokenMap, config,
                                            getTokenDto.deviceId, now)} :
  \E r \in {getToken(result)} :
    /\ deviceTokenMap' = r.map
    /\ last' = [op |-> "getToken", deviceId |-> deviceId, ok |-> r.ok,
                response |-> IF r.ok THEN r.response ELSE NoResponse,
                exception |-> IF r.ok THEN NoException ELSE r.exception,
                at |-> now, before |-> deviceTokenMap]
    /\ UNCHANGED <<now, config, request, issued, lastIssued, codec,
                   tasks, userRepository, projectRepository>>

ControllerNext ==
  \/ Tick
  \/ \E d \in DeviceIdInputs : PostToken(d)
  \/ \E d \in {D1, D2} : RevokeToken(d)

ControllerSpec == Init /\ [][ControllerNext]_vars

\* C28: getToken answers {success: true, data: result} exactly when
\* generateToken returned, data being its result {token, deviceId,
\* expiresIn, issuedAt}; every failure of generateToken, the blank deviceId,
\* the absent secret and a failure of signing alike, becomes a
\* BadRequestException that carries the message of the failure and nothing else.
C28_GetTokenResponses ==
  last.op = "getToken" =>
    \E service \in {AuthService_generateToken(last.before, config,
                                              last.deviceId, last.at)} :
        /\ last.ok <=> service.ok
        /\ last.ok =>
             /\ last.response = [success |-> TRUE, data |-> service.value]
             /\ DOMAIN last.response.data = {"token", "deviceId", "expiresIn", "issuedAt"}
             /\ ~BlankDeviceId(last.deviceId) /\ ~SecretAbsent
             /\ deviceTokenMap = service.map
        /\ ~last.ok =>
             /\ last.response = NoResponse
             /\ DOMAIN last.exception = {"type", "message"}
             /\ last.exception.type = "BadRequestException"
             /\ last.exception.message = service.error
             /\ deviceTokenMap = last.before
        /\ BlankDeviceId(last.deviceId) =>
             last.exception = [type |-> "BadRequestException",
                               message |-> "Device ID is required"]
        /\ (~BlankDeviceId(last.deviceId) /\ SecretAbsent) =>
             last.exception = [type |-> "BadRequestException",
                               message |-> "JWT secret is not configured"]

\* the secret is absent, a token was asked for d1, and the client got the
\* bad request with the configuration message
C28_Witness ==
  /\ last.op = "getToken"
  /\ last.deviceId = D1
  /\ SecretAbsent
  /\ last.exception = [type |-> "BadRequestException",
                       message |-> "JWT secret is not configured"]

\* ---------------------------------------------------------------------------
\* AuthService.getAllActiveTokens and what its caller does with the Map it
\* gets.  A Map value held by a caller is [ref, entries]: ref names the object,
\* "deviceTokenMap" for the service's own map and "new Map" for any other,
\* whose entries the holder carries.
\* ---------------------------------------------------------------------------

\* mutant: the service hands out its own map
AuthService_getAllActiveTokens_alias(map) ==
  [ref |-> "deviceTokenMap", entries |-> EmptyMap]

\* getAllActiveTokens(): new Map(this.deviceTokenMap)
AuthService_getAllActiveTokens(map) ==
  [ref |-> "new Map", entries |-> map]

\* the entries of a held Map, given the service's map
EntriesOf(held, map) ==
  IF held.ref = "deviceTokenMap" THEN map ELSE held.entries

NoSnapshot == [pc |-> "idle", edits |-> 0]

SnapshotInit ==
  /\ now = 1
  /\ config = [JWT_SECRET |-> K1, JWT_EXPIRES_IN |-> undefined]
  /\ deviceTokenMap = EmptyMap
  /\ last = NoCall
  /\ request = NoRequest
  /\ issued = {}
  /\ lastIssued = EmptyMap
  /\ codec = NoCodec
  /\ tasks = [c \in Clients |-> NoSnapshot]
  /\ userRepository = {}
  /\ projectRepository = {}

SnapshotFrame ==
  UNCHANGED <<now, config, last, request, issued, lastIssued, codec,
              userRepository, projectRepository>>

\* a caller obtains the map
GetAllActiveTokens(c) ==
  /\ tasks[c].pc = "idle"
  /\ tasks' = [tasks EXCEPT ![c] =
       [pc |-> "holding", edits |-> 0,
        held |-> AuthService_getAllActiveTokens(deviceTokenMap)]]
  /\ UNCHANGED deviceTokenMap
  /\ SnapshotFrame

\* the caller calls set(key, value) on the Map it holds
HeldSet(c, key, value) ==
  /\ tasks[c].pc = "holding"
  /\ tasks[c].edits < MaxCalls
  /\ IF tasks[c].held.ref = "deviceTokenMap"
       THEN /\ deviceTokenMap' = MapSet(deviceTokenMap, key, value)
            /\ tasks' = [tasks EXCEPT ![c].edits = @ + 1]
       ELSE /\ deviceTokenMap' = deviceTokenMap
            /\ tasks' = [tasks EXCEPT ![c].edits = @ + 1,
                                      ![c].held.entries = MapSet(@, key, value)]
  /\ SnapshotFrame

\* the caller calls delete(key) on the Map it holds
HeldDelete(c, key) ==
  /\ tasks[c].pc = "holding"
  /\ tasks[c].edits < MaxCalls
  /\ IF tasks[c].held.ref = "deviceTokenMap"
       THEN /\ deviceTokenMap' = MapDelete(deviceTokenMap, key)
            /\ tasks' = [tasks EXCEPT ![c].edits = @ + 1]
       ELSE /\ deviceTokenMap' = deviceTokenMap
            /\ tasks' = [tasks EXCEPT ![c].edits = @ + 1,
                                      ![c].held.entries = MapDelete(@, key)]
  /\ SnapshotFrame

\* the caller lets go of the Map
HeldDrop(c) ==
  /\ tasks[c].pc = "holding"
  /\ tasks' = [tasks EXCEPT ![c] = NoSnapshot]
  /\ UNCHANGED deviceTokenMap
  /\ SnapshotFrame

SnapshotNext ==
  \/ Tick
  \/ \E d \in {D1, D2} : GenerateToken(d)
  \/ \E d \in {D1, D2} : RevokeToken(d)
  \/ \E c \in Clients : GetAllActiveTokens(c)
  \/ \E c \in Clients, k \in {D1, D2} : HeldSet(c, k, ForgedToken)
  \/ \E c \in Clients, k \in {D1, D2} : HeldDelete(c, k)
  \/ \E c \in Clients : HeldDrop(c)

SnapshotSpec == SnapshotInit /\ [][SnapshotNext]_vars

\* C29: the Map returned by getAllActiveTokens has the entries deviceTokenMap
\* has at the call; the call leaves deviceTokenMap unchanged; and a later set
\* or delete on the returned Map leaves deviceTokenMap unchanged, so
\* getStoredToken and isValidStoredToken answer as before for every deviceId
\* and token, while later issuing and revoking leave the returned Map as it was.
C29_SnapshotCopy ==
  [][\A c \in Clients :
       /\ (tasks[c].pc = "idle" /\ tasks'[c].pc = "holding") =>
            /\ EntriesOf(tasks'[c].held, deviceTokenMap') = deviceTokenMap
            /\ deviceTokenMap' = deviceTokenMap
       /\ (tasks[c].pc = "holding" /\ tasks'[c].pc = "holding"
           /\ tasks'[c].edits # tasks[c].edits) =>
            /\ deviceTokenMap' = deviceTokenMap
            /\ \A d \in DeviceIdInputs :
                 /\ AuthService_getStoredToken(deviceTokenMap', d)
                      = AuthService_getStoredToken(deviceTokenMap, d)
                 /\ \A t \in TokensAsked :
                      AuthService_isValidStoredToken(deviceTokenMap', d, t)
                        = AuthService_isValidStoredToken(deviceTokenMap, d, t)
       /\ (tasks[c].pc = "holding" /\ tasks'[c] = tasks[c]) =>
            EntriesOf(tasks'[c].held, deviceTokenMap')
              = EntriesOf(tasks[c].held, deviceTokenMap)
    ]_vars

\* a caller deleted d1 from the Map it got and put a token of its own under
\* d2, and the service still holds the token it issued for d1 and none for d2
C29_Witness ==
  \E c \in Clients :
    /\ tasks[c].pc = "holding"
    /\ tasks[c].edits = 2
    /\ DOMAIN tasks[c].held.entries = {D2}
    /\ tasks[c].held.entries[D2] = ForgedToken
    /\ DOMAIN deviceTokenMap = {D1}
    /\ AuthService_getStoredToken(deviceTokenMap, D1) \in TokensOf(issued)

============================================================================
